---------------------------- MODULE Spec2Model ----------------------------
(***************************************************************************)
(* A model of the rule-based contract analysis pipeline of llamalaw:       *)
(* document classification, entity extraction, clause segmentation and     *)
(* risk assessment, composed by ContractAnalyzer.analyze.                  *)
(*                                                                         *)
(* Python strings are TLA+ strings in the state and at the interface of   *)
(* each component; inside a component a text is the sequence of its        *)
(* one-character strings (S converts a string, Str converts back), and     *)
(* Python's str methods and the `re` functions the code calls are modelled *)
(* by what they compute on such sequences.  A compiled regular expression  *)
(* is represented by its source string; ReCompile gives its pattern tree.  *)
(* The objects built by the code (Clause, Risk, Contract, the result       *)
(* classes) are records that carry the fields the constructing call        *)
(* passes; a component is the record of its instance attributes.  A Party  *)
(* built by extract_parties is the record of the fields its class          *)
(* declares.                                                               *)
(***************************************************************************)
EXTENDS Integers, Sequences, FiniteSets, TLC

(***************************************************************************)
(* Characters and Python str methods                                       *)
(***************************************************************************)

\* A string as the sequence of its one-character strings, and back.
S(str) == [i \in 1..Len(str) |-> SubSeq(str, i, i)]
RECURSIVE StrRange(_, _, _)
StrRange(cs, lo, hi) ==
    IF lo > hi THEN ""
    ELSE IF lo = hi THEN cs[lo]
    ELSE StrRange(cs, lo, (lo + hi) \div 2) \o StrRange(cs, (lo + hi) \div 2 + 1, hi)
Str(cs) == StrRange(cs, 1, Len(cs))

UpperSeq == S("ABCDEFGHIJKLMNOPQRSTUVWXYZ")
LowerSeq == S("abcdefghijklmnopqrstuvwxyz")
DigitSeq == S("0123456789")

SetOf(s) == {s[i] : i \in 1..Len(s)}

CUpper == SetOf(UpperSeq)
CLower == SetOf(LowerSeq)
CDigit == SetOf(DigitSeq)
CAlpha == CUpper \cup CLower
\* \w of the re module (ASCII part)
CWord == CAlpha \cup CDigit \cup {"_"}
\* \s of the re module and the characters str.strip() removes (ASCII part)
CSpace == {" ", "\t", "\n", "\r", "\f"}

LowerOf == [c \in CUpper |-> LowerSeq[CHOOSE i \in 1..26 : UpperSeq[i] = c]]
UpperOf == [c \in CLower |-> UpperSeq[CHOOSE i \in 1..26 : LowerSeq[i] = c]]

\* str.lower() on one character and on a string
LowerChar(c) == IF c \in CUpper THEN LowerOf[c] ELSE c
UpperChar(c) == IF c \in CLower THEN UpperOf[c] ELSE c
StrLower(s) == [i \in 1..Len(s) |-> LowerChar(s[i])]

\* s[a:b] with 1-based inclusive a and exclusive b
Slice(s, a, b) == SubSeq(s, a, b - 1)

\* `sub in s`
StrContains(s, sub) ==
    \E i \in 1..(Len(s) - Len(sub) + 1) : SubSeq(s, i, i + Len(sub) - 1) = sub

\* the largest and the smallest element of a finite set of integers
MaxOf(P) == CHOOSE x \in P : \A y \in P : y <= x
MinOf(P) == CHOOSE x \in P : \A y \in P : x <= y

\* the k-th smallest element of a finite set of integers
KthOf(P, k) == CHOOSE x \in P : Cardinality({y \in P : y < x}) = k - 1

\* str.strip()
StrStrip(s) ==
    LET keep == {i \in 1..Len(s) : s[i] \notin CSpace}
    IN  IF keep = {} THEN <<>>
        ELSE SubSeq(s, KthOf(keep, 1), KthOf(keep, Cardinality(keep)))

\* str.split(sep) for a one-character separator: the pieces between the
\* separators, empty pieces kept
StrSplit(s, sep) ==
    LET at == {i \in 1..Len(s) : s[i] = sep}
        n == Cardinality(at)
        cut == [k \in 0..(n + 1) |->
                  IF k = 0 THEN 0 ELSE IF k = n + 1 THEN Len(s) + 1
                  ELSE KthOf(at, k)]
    IN  [k \in 1..(n + 1) |-> SubSeq(s, cut[k - 1] + 1, cut[k] - 1)]

\* the concatenation of the sequences ss[lo], ..., ss[hi]
RECURSIVE FlattenRange(_, _, _)
FlattenRange(ss, lo, hi) ==
    IF lo > hi THEN <<>>
    ELSE IF lo = hi THEN ss[lo]
    ELSE FlattenRange(ss, lo, (lo + hi) \div 2)
         \o FlattenRange(ss, (lo + hi) \div 2 + 1, hi)
Flatten(ss) == FlattenRange(ss, 1, Len(ss))

\* sep.join(parts)
StrJoin(parts, sep) ==
    Flatten([i \in 1..Len(parts) |->
               IF i = 1 THEN parts[i] ELSE sep \o parts[i]])

\* xs[:n]
Take(xs, n) == SubSeq(xs, 1, IF Len(xs) < n THEN Len(xs) ELSE n)

\* the elements of xs whose index is in keep, in order
SeqAt(xs, keep) == [k \in 1..Cardinality(keep) |-> xs[KthOf(keep, k)]]

\* a removal of duplicates that keeps the last occurrence of a string
DictFromKeysKeepsLast(xs) ==
    SeqAt(xs, {i \in 1..Len(xs) : \A j \in (i + 1)..Len(xs) : xs[j] # xs[i]})

\* list(dict.fromkeys(xs)): first occurrences, order kept
DictFromKeys(xs) ==
    SeqAt(xs, {i \in 1..Len(xs) : \A j \in 1..(i - 1) : xs[j] # xs[i]})

(***************************************************************************)
(* Regular expressions of the re module.  A pattern is a tree of nodes.    *)
(* ReEnds lists the ways a node can match from a position in the order in  *)
(* which re's backtracking matcher tries them (alternatives left to right, *)
(* greedy repetitions longest first), so its first element is the match    *)
(* re returns.                                                             *)
(***************************************************************************)

\* [...] and [^...]
RSet(cs) == [k |-> "set", s |-> cs, neg |-> FALSE]
RNot(cs) == [k |-> "set", s |-> cs, neg |-> TRUE]
\* . (any character except a newline)
RAny == RNot({"\n"})
\* a literal string (re.escape of it)
RLitSeq(s) == [k |-> "lit", s |-> s]
RLit(str) == RLitSeq(S(str))
RSeq(xs) == [k |-> "seq", xs |-> xs]
RAlt(xs) == [k |-> "alt", xs |-> xs]
\* x{lo,hi}; hi = -1 is unbounded
RRep(x, lo, hi) == [k |-> "rep", x |-> x, lo |-> lo, hi |-> hi]
RStar(x) == RRep(x, 0, -1)
RPlus(x) == RRep(x, 1, -1)
ROpt(x) == RRep(x, 0, 1)
\* capturing group number n
RGrp(n, x) == [k |-> "grp", n |-> n, x |-> x]
\* \b
RWb == [k |-> "wb"]
\* ^ under re.MULTILINE
RBol == [k |-> "bol"]
\* (?=x) and (?!x)
RAhead(x) == [k |-> "la", x |-> x, neg |-> FALSE]
RNotAhead(x) == [k |-> "la", x |-> x, neg |-> TRUE]

\* group spans before the match: unset groups are <<0, 0>>
NoGroups == [n \in 1..4 |-> <<0, 0>>]

IsWordAt(t, p) == p >= 1 /\ p <= Len(t) /\ t[p] \in CWord

CharIn(c, node, ic) ==
    LET hit == IF ic
               THEN c \in node.s \/ LowerChar(c) \in node.s \/ UpperChar(c) \in node.s
               ELSE c \in node.s
    IN  hit # node.neg

LitAt(t, p, lit, ic) ==
    /\ p + Len(lit) - 1 <= Len(t)
    /\ IF ic
       THEN StrLower(SubSeq(t, p, p + Len(lit) - 1)) = StrLower(lit)
       ELSE SubSeq(t, p, p + Len(lit) - 1) = lit

\* the number of characters from t[p] on that a repetition of a character
\* set can take: the longest run of characters of the set, at most hi
RunLen(n, t, p, ic) ==
    LET most == IF n.hi >= 0 /\ n.hi < Len(t) - p + 1 THEN n.hi ELSE Len(t) - p + 1
        stop == {j \in 0..(most - 1) : ~CharIn(t[p + j], n.x, ic)}
    IN  IF stop = {} THEN most ELSE KthOf(stop, 1)

\* A state of the matcher is [p, g]: the next character is t[p], and g are
\* the group spans so far.  ic is re.IGNORECASE.
RECURSIVE ReEnds(_, _, _, _)
RECURSIVE SeqEnds(_, _, _, _, _)
RECURSIVE RepEnds(_, _, _, _)

SeqEnds(xs, i, t, sts, ic) ==
    IF i > Len(xs) \/ Len(sts) = 0 THEN sts
    ELSE SeqEnds(xs, i + 1, t,
                 Flatten([j \in 1..Len(sts) |-> ReEnds(xs[i], t, sts[j], ic)]),
                 ic)

\* a greedy repetition of a node that is not a character set: one more
\* iteration (which must consume a character) before none
RepEnds(n, t, st, ic) ==
    LET once == IF n.hi = 0 THEN <<>>
                ELSE SelectSeq(ReEnds(n.x, t, st, ic), LAMBDA e : e.p > st.p)
        next == RRep(n.x,
                     IF n.lo > 0 THEN n.lo - 1 ELSE 0,
                     IF n.hi > 0 THEN n.hi - 1 ELSE n.hi)
    IN  Flatten([j \in 1..Len(once) |-> RepEnds(next, t, once[j], ic)])
        \o (IF n.lo = 0 THEN <<st>> ELSE <<>>)

ReEnds(n, t, st, ic) ==
    CASE n.k = "set" ->
           IF st.p <= Len(t) /\ CharIn(t[st.p], n, ic)
           THEN <<[st EXCEPT !.p = @ + 1]>>
           ELSE <<>>
      [] n.k = "lit" ->
           IF LitAt(t, st.p, n.s, ic)
           THEN <<[st EXCEPT !.p = @ + Len(n.s)]>>
           ELSE <<>>
      [] n.k = "seq" -> SeqEnds(n.xs, 1, t, <<st>>, ic)
      [] n.k = "alt" ->
           Flatten([i \in 1..Len(n.xs) |-> ReEnds(n.xs[i], t, st, ic)])
      [] n.k = "rep" ->
           IF n.x.k = "set"
           THEN LET run == RunLen(n, t, st.p, ic)
                IN  [j \in 1..(run - n.lo + 1) |->
                       [st EXCEPT !.p = @ + run - j + 1]]
           ELSE RepEnds(n, t, st, ic)
      [] n.k = "grp" ->
           LET inner == ReEnds(n.x, t, st, ic)
           IN  [j \in 1..Len(inner) |->
                  [inner[j] EXCEPT !.g[n.n] = <<st.p, inner[j].p>>]]
      [] n.k = "wb" ->
           IF IsWordAt(t, st.p - 1) # IsWordAt(t, st.p) THEN <<st>> ELSE <<>>
      [] n.k = "bol" ->
           IF st.p = 1 \/ t[st.p - 1] = "\n" THEN <<st>> ELSE <<>>
      [] n.k = "la" ->
           IF (Len(ReEnds(n.x, t, st, ic)) > 0) # n.neg THEN <<st>> ELSE <<>>

\* pattern.match(t, i): the match starting at position i, if any
ReMatchAt(re, t, i, ic) == ReEnds(re, t, [p |-> i, g |-> NoGroups], ic)

\* a match object: s = match.start(), e = match.end() (both as 1-based
\* positions, e exclusive), g = the group spans; s = 0 stands for None
NoFind == [s |-> 0, e |-> 0, g |-> NoGroups]

\* Whether a pattern can match the empty string, and the characters a
\* non-empty match of it can begin with (any: every character can).  As in
\* the re module's own search, a match is only attempted where it can start.
RECURSIVE Nullable(_)
Nullable(n) ==
    CASE n.k = "set" -> FALSE
      [] n.k = "lit" -> Len(n.s) = 0
      [] n.k = "seq" -> \A i \in 1..Len(n.xs) : Nullable(n.xs[i])
      [] n.k = "alt" -> \E i \in 1..Len(n.xs) : Nullable(n.xs[i])
      [] n.k = "rep" -> n.lo = 0 \/ Nullable(n.x)
      [] n.k = "grp" -> Nullable(n.x)
      [] OTHER -> TRUE

RECURSIVE FirstOf(_)
FirstOf(n) ==
    CASE n.k = "set" -> IF n.neg THEN [any |-> TRUE, s |-> {}] ELSE [any |-> FALSE, s |-> n.s]
      [] n.k = "lit" -> [any |-> FALSE, s |-> IF Len(n.s) = 0 THEN {} ELSE {n.s[1]}]
      [] n.k = "seq" ->
           LET upto == {i \in 1..Len(n.xs) : \A j \in 1..(i - 1) : Nullable(n.xs[j])}
               fs_ == [i \in 1..Len(n.xs) |-> FirstOf(n.xs[i])]
           IN  [any |-> \E i \in upto : fs_[i].any,
                s |-> UNION {fs_[i].s : i \in upto}]
      [] n.k = "alt" ->
           LET fs_ == [i \in 1..Len(n.xs) |-> FirstOf(n.xs[i])]
           IN  [any |-> \E i \in 1..Len(n.xs) : fs_[i].any,
                s |-> UNION {fs_[i].s : i \in 1..Len(n.xs)}]
      [] n.k \in {"rep", "grp"} -> FirstOf(n.x)
      [] OTHER -> [any |-> FALSE, s |-> {}]

\* the positions from pos on where a match of the pattern can start
Starts(re, t, pos, ic) ==
    LET From(f) ==
            LET cs == IF ic THEN f.s \cup {LowerChar(c) : c \in f.s}
                                     \cup {UpperChar(c) : c \in f.s}
                      ELSE f.s
            IN  IF f.any \/ Nullable(re) THEN pos..(Len(t) + 1)
                ELSE {i \in pos..Len(t) : t[i] \in cs}
    IN  From(FirstOf(re))

\* pattern.search(t, pos): the leftmost match starting at or after pos
ReSearchFrom(re, t, pos, ic) ==
    LET Span(i, r) == [s |-> i, e |-> r.p, g |-> r.g]
        First(i) == Span(i, ReMatchAt(re, t, i, ic)[1])
        Leftmost(at) == IF at = {} THEN NoFind ELSE First(MinOf(at))
    IN  Leftmost({i \in Starts(re, t, pos, ic) : Len(ReMatchAt(re, t, i, ic)) > 0})

\* re.search(pattern, t) is not None
ReFound(re, t, ic) ==
    \E i \in Starts(re, t, 1, ic) : Len(ReMatchAt(re, t, i, ic)) > 0

\* list(pattern.finditer(t)): the non-overlapping matches, left to right
RECURSIVE ReFindIterFrom(_, _, _, _)
ReFindIterFrom(re, t, pos, ic) ==
    LET Then(m) ==
            IF m.s = 0 THEN <<>>
            ELSE <<m>> \o ReFindIterFrom(re, t, IF m.e > m.s THEN m.e ELSE m.e + 1, ic)
    IN  Then(ReSearchFrom(re, t, pos, ic))
ReFindIter(re, t, ic) == ReFindIterFrom(re, t, 1, ic)

\* match.group(0) and match.group(n)
Group0(t, m) == Slice(t, m.s, m.e)
GroupN(t, m, n) == Slice(t, m.g[n][1], m.g[n][2])

RECURSIVE SumRange(_, _, _)
SumRange(xs, lo, hi) ==
    IF lo > hi THEN 0
    ELSE IF lo = hi THEN xs[lo]
    ELSE SumRange(xs, lo, (lo + hi) \div 2) + SumRange(xs, (lo + hi) \div 2 + 1, hi)
SumSeq(xs) == SumRange(xs, 1, Len(xs))

(***************************************************************************)
(* Regular expressions of the program                                      *)
(***************************************************************************)

\* re.compile: the pattern tree of each regular expression the program uses
\* (a string that is none of them compiles to a pattern matching nothing)
ReCompile(pattern) ==
    CASE pattern = "\\b(0?[1-9]|1[0-2])[-/](0?[1-9]|[12][0-9]|3[01])[-/](19|20)\\d\\d\\b" ->
        RSeq(<<RWb, RGrp(1, RAlt(<<RSeq(<<ROpt(RLit("0")), RSet({"1", "2", "3", "4", "5", "6", "7", "8", "9"})>>), RSeq(<<RLit("1"), RSet({"0", "1", "2"})>>)>>)), RSet({"-", "/"}), RGrp(2, RAlt(<<RSeq(<<ROpt(RLit("0")), RSet({"1", "2", "3", "4", "5", "6", "7", "8", "9"})>>), RSeq(<<RSet({"1", "2"}), RSet(CDigit)>>), RSeq(<<RLit("3"), RSet({"0", "1"})>>)>>)), RSet({"-", "/"}), RGrp(3, RAlt(<<RLit("19"), RLit("20")>>)), RSet(CDigit), RSet(CDigit), RWb>>)
      [] pattern = "\\b(January|February|March|April|May|June|July|August|September|October|November|December)\\s+(0?[1-9]|[12][0-9]|3[01])(st|nd|rd|th)?,\\s+(19|20)\\d\\d\\b" ->
        RSeq(<<RWb, RGrp(1, RAlt(<<RLit("January"), RLit("February"), RLit("March"), RLit("April"), RLit("May"), RLit("June"), RLit("July"), RLit("August"), RLit("September"), RLit("October"), RLit("November"), RLit("December")>>)), RPlus(RSet(CSpace)), RGrp(2, RAlt(<<RSeq(<<ROpt(RLit("0")), RSet({"1", "2", "3", "4", "5", "6", "7", "8", "9"})>>), RSeq(<<RSet({"1", "2"}), RSet(CDigit)>>), RSeq(<<RLit("3"), RSet({"0", "1"})>>)>>)), ROpt(RGrp(3, RAlt(<<RLit("st"), RLit("nd"), RLit("rd"), RLit("th")>>))), RLit(","), RPlus(RSet(CSpace)), RGrp(4, RAlt(<<RLit("19"), RLit("20")>>)), RSet(CDigit), RSet(CDigit), RWb>>)
      [] pattern = "\\b(Jan|Feb|Mar|Apr|May|Jun|Jul|Aug|Sep|Oct|Nov|Dec)\\.?\\s+(0?[1-9]|[12][0-9]|3[01])(st|nd|rd|th)?,\\s+(19|20)\\d\\d\\b" ->
        RSeq(<<RWb, RGrp(1, RAlt(<<RLit("Jan"), RLit("Feb"), RLit("Mar"), RLit("Apr"), RLit("May"), RLit("Jun"), RLit("Jul"), RLit("Aug"), RLit("Sep"), RLit("Oct"), RLit("Nov"), RLit("Dec")>>)), ROpt(RLit(".")), RPlus(RSet(CSpace)), RGrp(2, RAlt(<<RSeq(<<ROpt(RLit("0")), RSet({"1", "2", "3", "4", "5", "6", "7", "8", "9"})>>), RSeq(<<RSet({"1", "2"}), RSet(CDigit)>>), RSeq(<<RLit("3"), RSet({"0", "1"})>>)>>)), ROpt(RGrp(3, RAlt(<<RLit("st"), RLit("nd"), RLit("rd"), RLit("th")>>))), RLit(","), RPlus(RSet(CSpace)), RGrp(4, RAlt(<<RLit("19"), RLit("20")>>)), RSet(CDigit), RSet(CDigit), RWb>>)
      [] pattern = "\\b(19|20)\\d\\d[-](0?[1-9]|1[0-2])[-](0?[1-9]|[12][0-9]|3[01])\\b" ->
        RSeq(<<RWb, RGrp(1, RAlt(<<RLit("19"), RLit("20")>>)), RSet(CDigit), RSet(CDigit), RLit("-"), RGrp(2, RAlt(<<RSeq(<<ROpt(RLit("0")), RSet({"1", "2", "3", "4", "5", "6", "7", "8", "9"})>>), RSeq(<<RLit("1"), RSet({"0", "1", "2"})>>)>>)), RLit("-"), RGrp(3, RAlt(<<RSeq(<<ROpt(RLit("0")), RSet({"1", "2", "3", "4", "5", "6", "7", "8", "9"})>>), RSeq(<<RSet({"1", "2"}), RSet(CDigit)>>), RSeq(<<RLit("3"), RSet({"0", "1"})>>)>>)), RWb>>)
      [] pattern = "\\$\\s*(\\d{1,3}(?:,\\d{3})*(?:\\.\\d{1,2})?)\\b" ->
        RSeq(<<RLit("$"), RStar(RSet(CSpace)), RGrp(1, RSeq(<<RRep(RSet(CDigit), 1, 3), RStar(RSeq(<<RLit(","), RRep(RSet(CDigit), 3, 3)>>)), ROpt(RSeq(<<RLit("."), RRep(RSet(CDigit), 1, 2)>>))>>)), RWb>>)
      [] pattern = "€\\s*(\\d{1,3}(?:,\\d{3})*(?:\\.\\d{1,2})?)\\b" ->
        RSeq(<<RLit("€"), RStar(RSet(CSpace)), RGrp(1, RSeq(<<RRep(RSet(CDigit), 1, 3), RStar(RSeq(<<RLit(","), RRep(RSet(CDigit), 3, 3)>>)), ROpt(RSeq(<<RLit("."), RRep(RSet(CDigit), 1, 2)>>))>>)), RWb>>)
      [] pattern = "£\\s*(\\d{1,3}(?:,\\d{3})*(?:\\.\\d{1,2})?)\\b" ->
        RSeq(<<RLit("£"), RStar(RSet(CSpace)), RGrp(1, RSeq(<<RRep(RSet(CDigit), 1, 3), RStar(RSeq(<<RLit(","), RRep(RSet(CDigit), 3, 3)>>)), ROpt(RSeq(<<RLit("."), RRep(RSet(CDigit), 1, 2)>>))>>)), RWb>>)
      [] pattern = "\\b(\\d{1,3}(?:,\\d{3})*(?:\\.\\d{1,2})?\\s*(?:dollars|euros|pounds))\\b" ->
        RSeq(<<RWb, RGrp(1, RSeq(<<RRep(RSet(CDigit), 1, 3), RStar(RSeq(<<RLit(","), RRep(RSet(CDigit), 3, 3)>>)), ROpt(RSeq(<<RLit("."), RRep(RSet(CDigit), 1, 2)>>)), RStar(RSet(CSpace)), RAlt(<<RLit("dollars"), RLit("euros"), RLit("pounds")>>)>>)), RWb>>)
      [] pattern = "\\b(\\d{1,3}(?:,\\d{3})*(?:\\.\\d{1,2})?\\s*(?:USD|EUR|GBP))\\b" ->
        RSeq(<<RWb, RGrp(1, RSeq(<<RRep(RSet(CDigit), 1, 3), RStar(RSeq(<<RLit(","), RRep(RSet(CDigit), 3, 3)>>)), ROpt(RSeq(<<RLit("."), RRep(RSet(CDigit), 1, 2)>>)), RStar(RSet(CSpace)), RAlt(<<RLit("USD"), RLit("EUR"), RLit("GBP")>>)>>)), RWb>>)
      [] pattern = "\\b([A-Z][a-z]+(?:\\s+[A-Z][a-z]+)*(?:,)?\\s+(?:Inc|LLC|Ltd|Corporation|Corp|Company|Co|GmbH|LP|LLP|Limited|International))\\b" ->
        RSeq(<<RWb, RGrp(1, RSeq(<<RSet(CUpper), RPlus(RSet(CLower)), RStar(RSeq(<<RPlus(RSet(CSpace)), RSet(CUpper), RPlus(RSet(CLower))>>)), ROpt(RLit(",")), RPlus(RSet(CSpace)), RAlt(<<RLit("Inc"), RLit("LLC"), RLit("Ltd"), RLit("Corporation"), RLit("Corp"), RLit("Company"), RLit("Co"), RLit("GmbH"), RLit("LP"), RLit("LLP"), RLit("Limited"), RLit("International")>>)>>)), RWb>>)
      [] pattern = "\\b((?:The\\s+)?[A-Z][a-z]+(?:\\s+[A-Z][a-z]+)*\\s+(?:Trust|Foundation|Association|Institute|University|College|School))\\b" ->
        RSeq(<<RWb, RGrp(1, RSeq(<<ROpt(RSeq(<<RLit("The"), RPlus(RSet(CSpace))>>)), RSet(CUpper), RPlus(RSet(CLower)), RStar(RSeq(<<RPlus(RSet(CSpace)), RSet(CUpper), RPlus(RSet(CLower))>>)), RPlus(RSet(CSpace)), RAlt(<<RLit("Trust"), RLit("Foundation"), RLit("Association"), RLit("Institute"), RLit("University"), RLit("College"), RLit("School")>>)>>)), RWb>>)
      [] pattern = "\\b((?:Mr|Mrs|Ms|Dr|Prof)\\.\\s+(?:[A-Z][a-z]+\\s+)+(?:[A-Z][a-z]+))\\b" ->
        RSeq(<<RWb, RGrp(1, RSeq(<<RAlt(<<RLit("Mr"), RLit("Mrs"), RLit("Ms"), RLit("Dr"), RLit("Prof")>>), RLit("."), RPlus(RSet(CSpace)), RPlus(RSeq(<<RSet(CUpper), RPlus(RSet(CLower)), RPlus(RSet(CSpace))>>)), RSet(CUpper), RPlus(RSet(CLower))>>)), RWb>>)
      [] pattern = "\\b((?:[A-Z][a-z]+\\s+)(?:[A-Z]\\.\\s+)?(?:[A-Z][a-z]+))\\b" ->
        RSeq(<<RWb, RGrp(1, RSeq(<<RSet(CUpper), RPlus(RSet(CLower)), RPlus(RSet(CSpace)), ROpt(RSeq(<<RSet(CUpper), RLit("."), RPlus(RSet(CSpace))>>)), RSet(CUpper), RPlus(RSet(CLower))>>)), RWb>>)
      [] pattern = "(?:^|\\n)(?:\\s*)(\\d+(?:\\.\\d+)*)\\s+([^\\n]+)" ->
        RSeq(<<RAlt(<<RBol, RLit("\n")>>), RStar(RSet(CSpace)), RGrp(1, RSeq(<<RPlus(RSet(CDigit)), RStar(RSeq(<<RLit("."), RPlus(RSet(CDigit))>>))>>)), RPlus(RSet(CSpace)), RGrp(2, RPlus(RNot({"\n"})))>>)
      [] pattern = "(?:^|\\n)(?:\\s*)([A-Z][A-Z\\s]+[A-Z])(?:\\.|:|\\n)" ->
        RSeq(<<RAlt(<<RBol, RLit("\n")>>), RStar(RSet(CSpace)), RGrp(1, RSeq(<<RSet(CUpper), RPlus(RSet(CUpper \cup CSpace)), RSet(CUpper)>>)), RSet({".", ":", "\n"})>>)
      [] pattern = "(?:^|\\n)(?:\\s*)((?:[A-Z][a-z]+\\s*)+)(?:\\.|:|\\n)" ->
        RSeq(<<RAlt(<<RBol, RLit("\n")>>), RStar(RSet(CSpace)), RGrp(1, RPlus(RSeq(<<RSet(CUpper), RPlus(RSet(CLower)), RStar(RSet(CSpace))>>))), RSet({".", ":", "\n"})>>)
      [] pattern = "\\n\\s*\\n" ->
        RSeq(<<RLit("\n"), RStar(RSet(CSpace)), RLit("\n")>>)
      [] pattern = "indemnify.*(?:all|any).*(?:losses|damages|claims|liabilities|expenses|costs)" ->
        RSeq(<<RLit("indemnify"), RStar(RAny), RLit("a"), RAlt(<<RLit("ll"), RLit("ny")>>), RStar(RAny), RAlt(<<RLit("losses"), RLit("damages"), RLit("claims"), RLit("liabilities"), RLit("expenses"), RLit("costs")>>)>>)
      [] pattern = "indemnify.*(?:indirect|consequential|special|punitive).*damages" ->
        RSeq(<<RLit("indemnify"), RStar(RAny), RAlt(<<RLit("indirect"), RLit("consequential"), RLit("special"), RLit("punitive")>>), RStar(RAny), RLit("damages")>>)
      [] pattern = "no\\s+(?:limit|limitation|cap|maximum).*liability" ->
        RSeq(<<RLit("no"), RPlus(RSet(CSpace)), RAlt(<<RLit("limit"), RLit("limitation"), RLit("cap"), RLit("maximum")>>), RStar(RAny), RLit("liability")>>)
      [] pattern = "terminat(?:e|ion).*(?:sole\\s+discretion|any\\s+reason|no\\s+reason|any\\s+time)" ->
        RSeq(<<RLit("terminat"), RAlt(<<RLit("e"), RLit("ion")>>), RStar(RAny), RAlt(<<RSeq(<<RLit("sole"), RPlus(RSet(CSpace)), RLit("discretion")>>), RSeq(<<RLit("any"), RPlus(RSet(CSpace)), RLit("reason")>>), RSeq(<<RLit("no"), RPlus(RSet(CSpace)), RLit("reason")>>), RSeq(<<RLit("any"), RPlus(RSet(CSpace)), RLit("time")>>)>>)>>)
      [] pattern = "(?:no|not).*right.*terminat(?:e|ion)" ->
        RSeq(<<RLit("no"), RAlt(<<RSeq(<<>>), RLit("t")>>), RStar(RAny), RLit("right"), RStar(RAny), RLit("terminat"), RAlt(<<RLit("e"), RLit("ion")>>)>>)
      [] pattern = "(?:assign|transfer|convey).*(?:all|entire|exclusive).*(?:right|title|interest).*(?:intellectual\\s+property|copyright|patent|trademark)" ->
        RSeq(<<RAlt(<<RLit("assign"), RLit("transfer"), RLit("convey")>>), RStar(RAny), RAlt(<<RLit("all"), RLit("entire"), RLit("exclusive")>>), RStar(RAny), RAlt(<<RLit("right"), RLit("title"), RLit("interest")>>), RStar(RAny), RAlt(<<RSeq(<<RLit("intellectual"), RPlus(RSet(CSpace)), RLit("property")>>), RLit("copyright"), RLit("patent"), RLit("trademark")>>)>>)
      [] pattern = "govern(?:ed|ing).*laws.*(?:of|in)\\s+(?!your favorable jurisdiction)" ->
        RSeq(<<RLit("govern"), RAlt(<<RLit("ed"), RLit("ing")>>), RStar(RAny), RLit("laws"), RStar(RAny), RAlt(<<RLit("of"), RLit("in")>>), RPlus(RSet(CSpace)), RNotAhead(RLit("your favorable jurisdiction"))>>)
      [] pattern = "confidential(?:ity)?.*(?:perpetual|indefinite|unlimited|no expiration)" ->
        RSeq(<<RLit("confidential"), ROpt(RLit("ity")), RStar(RAny), RAlt(<<RLit("perpetual"), RLit("indefinite"), RLit("unlimited"), RLit("no expiration")>>)>>)
      [] pattern = "(?:may|right to).*(?:change|modify|amend).*(?:sole discretion|any time|without notice)" ->
        RSeq(<<RAlt(<<RLit("may"), RLit("right to")>>), RStar(RAny), RAlt(<<RLit("change"), RLit("modify"), RLit("amend")>>), RStar(RAny), RAlt(<<RLit("sole discretion"), RLit("any time"), RLit("without notice")>>)>>)
      [] pattern = "(?:non-compete|not compete|no compete).*(?:worldwide|global|any|all)" ->
        RSeq(<<RLit("no"), RAlt(<<RLit("n-compete"), RLit("t compete"), RLit(" compete")>>), RStar(RAny), RAlt(<<RLit("worldwide"), RLit("global"), RLit("any"), RLit("all")>>)>>)
      [] pattern = "(?:may|right to).*assign.*(?:without|no).*(?:consent|notice|approval)" ->
        RSeq(<<RAlt(<<RLit("may"), RLit("right to")>>), RStar(RAny), RLit("assign"), RStar(RAny), RAlt(<<RLit("without"), RLit("no")>>), RStar(RAny), RAlt(<<RLit("consent"), RLit("notice"), RLit("approval")>>)>>)
      [] pattern = "pay(?:ment)?.*(?:due|within).*(?:upon receipt|immediately)" ->
        RSeq(<<RLit("pay"), ROpt(RLit("ment")), RStar(RAny), RAlt(<<RLit("due"), RLit("within")>>), RStar(RAny), RAlt(<<RLit("upon receipt"), RLit("immediately")>>)>>)
      [] pattern = "(?:no|without).*(?:warranty|warranties|guarantees?)" ->
        RSeq(<<RAlt(<<RLit("no"), RLit("without")>>), RStar(RAny), RAlt(<<RLit("warranty"), RLit("warranties"), RSeq(<<RLit("guarantee"), ROpt(RLit("s"))>>)>>)>>)
      [] pattern = "(?:audit|inspect).*(?:any time|all|entire|without notice)" ->
        RSeq(<<RAlt(<<RLit("audit"), RLit("inspect")>>), RStar(RAny), RAlt(<<RLit("any time"), RLit("all"), RLit("entire"), RLit("without notice")>>)>>)
      [] pattern = " +" ->
        RPlus(RLit(" "))
      [] pattern = "\\n{3,}" ->
        RRep(RLit("\n"), 3, -1)
      [] pattern = "\\n\\s*\\d+\\s*\\n" ->
        RSeq(<<RLit("\n"), RStar(RSet(CSpace)), RPlus(RSet(CDigit)), RStar(RSet(CSpace)), RLit("\n")>>)
      [] pattern = "\\n\\s*Page \\d+ of \\d+\\s*\\n" ->
        RSeq(<<RLit("\n"), RStar(RSet(CSpace)), RLit("Page "), RPlus(RSet(CDigit)), RLit(" of "), RPlus(RSet(CDigit)), RStar(RSet(CSpace)), RLit("\n")>>)
      [] pattern = "\\n\\s*CONFIDENTIAL\\s*\\n" ->
        RSeq(<<RLit("\n"), RStar(RSet(CSpace)), RLit("CONFIDENTIAL"), RStar(RSet(CSpace)), RLit("\n")>>)
      [] pattern = "\\n\\s*\\d+\\s*\\|\\s*Page\\s*\\n" ->
        RSeq(<<RLit("\n"), RStar(RSet(CSpace)), RPlus(RSet(CDigit)), RStar(RSet(CSpace)), RLit("|"), RStar(RSet(CSpace)), RLit("Page"), RStar(RSet(CSpace)), RLit("\n")>>)
      [] pattern = "l\\b" ->
        RSeq(<<RLit("l"), RWb>>)
      [] pattern = "\\bI([^a-zA-Z])" ->
        RSeq(<<RWb, RLit("I"), RGrp(1, RNot(CLower \cup CUpper))>>)
      [] pattern = "0(?=\\d{3})" ->
        RSeq(<<RLit("0"), RAhead(RRep(RSet(CDigit), 3, 3))>>)
      [] pattern = "(\\d)O" ->
        RSeq(<<RGrp(1, RSet(CDigit)), RLit("O")>>)
      [] pattern = "rn" ->
        RLit("rn")
      [] pattern = "(?:between|by and between)\\s+([^,]+)(?:,|and|\\n)" ->
        RSeq(<<RLit("b"), RAlt(<<RLit("etween"), RLit("y and between")>>), RPlus(RSet(CSpace)), RGrp(1, RPlus(RNot({","}))), RAlt(<<RLit(","), RLit("and"), RLit("\n")>>)>>)
      [] pattern = "(?:party of the first part|party of the second part)(?::|,)?\\s+([^,\\n]+)" ->
        RSeq(<<RLit("party of the "), RAlt(<<RLit("first part"), RLit("second part")>>), ROpt(RSet({":", ","})), RPlus(RSet(CSpace)), RGrp(1, RPlus(RNot({",", "\n"})))>>)
      [] pattern = "(?:the \"(?:Company|Employer|Client|Vendor|Supplier|Licensor|Licensee|Landlord|Tenant)\")(?::|,)?\\s+([^,\\n]+)" ->
        RSeq(<<RLit("the \""), RAlt(<<RLit("Company"), RLit("Employer"), RLit("Client"), RLit("Vendor"), RLit("Supplier"), RLit("Licensor"), RLit("Licensee"), RLit("Landlord"), RLit("Tenant")>>), RLit("\""), ROpt(RSet({":", ","})), RPlus(RSet(CSpace)), RGrp(1, RPlus(RNot({",", "\n"})))>>)
      [] pattern = "(?:hereinafter referred to as|herein referred to as)(?::|,)?\\s+\"?([^\",\\n]+)\"?" ->
        RSeq(<<RLit("herein"), RAlt(<<RLit("after referred to as"), RLit(" referred to as")>>), ROpt(RSet({":", ","})), RPlus(RSet(CSpace)), ROpt(RLit("\"")), RGrp(1, RPlus(RNot({"\"", ",", "\n"}))), ROpt(RLit("\""))>>)
      [] pattern = "(?:effective\\s+(?:as\\s+of\\s+|date:?\\s*))([^,\\n]+)" ->
        RSeq(<<RLit("effective"), RPlus(RSet(CSpace)), RAlt(<<RSeq(<<RLit("as"), RPlus(RSet(CSpace)), RLit("of"), RPlus(RSet(CSpace))>>), RSeq(<<RLit("date"), ROpt(RLit(":")), RStar(RSet(CSpace))>>)>>), RGrp(1, RPlus(RNot({",", "\n"})))>>)
      [] pattern = "(?:agreement\\s+date:?\\s*)([^,\\n]+)" ->
        RSeq(<<RLit("agreement"), RPlus(RSet(CSpace)), RLit("date"), ROpt(RLit(":")), RStar(RSet(CSpace)), RGrp(1, RPlus(RNot({",", "\n"})))>>)
      [] pattern = "(?:dated\\s+(?:as\\s+of\\s+)?)([^,\\n]+)" ->
        RSeq(<<RLit("dated"), RPlus(RSet(CSpace)), ROpt(RSeq(<<RLit("as"), RPlus(RSet(CSpace)), RLit("of"), RPlus(RSet(CSpace))>>)), RGrp(1, RPlus(RNot({",", "\n"})))>>)
      [] pattern = "(?:terminat(?:es|ion)\\s+(?:date|on):?\\s*)([^,\\n]+)" ->
        RSeq(<<RLit("terminat"), RAlt(<<RLit("es"), RLit("ion")>>), RPlus(RSet(CSpace)), RAlt(<<RLit("date"), RLit("on")>>), ROpt(RLit(":")), RStar(RSet(CSpace)), RGrp(1, RPlus(RNot({",", "\n"})))>>)
      [] pattern = "(?:expir(?:es|ation)\\s+(?:date|on):?\\s*)([^,\\n]+)" ->
        RSeq(<<RLit("expir"), RAlt(<<RLit("es"), RLit("ation")>>), RPlus(RSet(CSpace)), RAlt(<<RLit("date"), RLit("on")>>), ROpt(RLit(":")), RStar(RSet(CSpace)), RGrp(1, RPlus(RNot({",", "\n"})))>>)
      [] pattern = "(?:end\\s+date:?\\s*)([^,\\n]+)" ->
        RSeq(<<RLit("end"), RPlus(RSet(CSpace)), RLit("date"), ROpt(RLit(":")), RStar(RSet(CSpace)), RGrp(1, RPlus(RNot({",", "\n"})))>>)
      [] OTHER -> RSet({})

(***************************************************************************)
(* DocumentClassifier (analysis/classifier.py)                             *)
(***************************************************************************)

\* self.document_types as built by __init__: the document types in the
\* order of the dict, each with its indicator phrases in list order
DocumentTypesTable ==
    << [name |-> "non-disclosure-agreement",
        indicators |-> <<"confidentiality", "non-disclosure",
                         "confidential information", "trade secrets",
                         "proprietary information", "confidential disclosure">>],
       [name |-> "employment-agreement",
        indicators |-> <<"employment", "salary", "compensation", "duties",
                         "responsibilities", "termination of employment",
                         "at-will employment">>],
       [name |-> "sales-agreement",
        indicators |-> <<"purchase", "sale", "price", "delivery",
                         "payment terms", "sales agreement", "goods",
                         "services">>],
       [name |-> "service-agreement",
        indicators |-> <<"services", "service provider", "statement of work",
                         "service level", "service agreement">>],
       [name |-> "license-agreement",
        indicators |-> <<"license", "licensee", "licensor",
                         "intellectual property", "copyright", "patent",
                         "trademark", "royalties">>],
       [name |-> "lease-agreement",
        indicators |-> <<"lease", "landlord", "tenant", "premises", "rent",
                         "property", "term of lease">>] >>

\* DocumentClassifier.__init__ (no model is ever loaded)
NewDocumentClassifier == [document_types |-> DocumentTypesTable]

\* a count of the occurrences of an indicator whether or not they are whole
\* words
IndicatorCountAnywhere(indicator, text_lower) ==
    Len(ReFindIter(RLit(indicator), text_lower, FALSE))

\* len(re.findall(r'\b' + re.escape(indicator) + r'\b', text_lower))
IndicatorCount(indicator, text_lower) ==
    Len(ReFindIter(RSeq(<<RWb, RLit(indicator), RWb>>), text_lower, FALSE))

\* the score of one document type: the sum of its indicators' counts
TypeScore(indicators, text_lower) ==
    SumSeq([k \in 1..Len(indicators) |-> IndicatorCount(indicators[k], text_lower)])

\* the scores dict of _rule_based_classify, by position in the table
ClassifyScores(types, text) ==
    LET text_lower == StrLower(S(text))
    IN  [i \in 1..Len(types) |-> TypeScore(types[i].indicators, text_lower)]

\* a tie-break that scans the whole text
FirstLinesWholeText(text) == StrLower(StrJoin(StrSplit(S(text), "\n"), S(" ")))

\* " ".join(text.split('\n')[:5]).lower()
FirstLines(text) == StrLower(StrJoin(Take(StrSplit(S(text), "\n"), 5), S(" ")))

\* DocumentClassifier._rule_based_classify
RuleBasedClassify(self, text) ==
    LET types == self.document_types
        Decide(scores, first_lines) ==
            LET max_score == MaxOf({scores[i] : i \in 1..Len(types)})
                max_types == {i \in 1..Len(types) : scores[i] = max_score}
                titled == {i \in max_types :
                             \E k \in 1..Len(types[i].indicators) :
                                StrContains(first_lines, S(types[i].indicators[k]))}
            IN  IF max_score = 0 THEN "unknown"
                ELSE IF Cardinality(max_types) > 1 /\ titled # {}
                     THEN types[MinOf(titled)].name
                ELSE types[MinOf(max_types)].name
    IN  IF Len(types) = 0 THEN "unknown"
        ELSE Decide(ClassifyScores(types, text), FirstLines(text))

\* DocumentClassifier.classify: self.model is never set, so the rule-based
\* path decides
Classify(self, text) == RuleBasedClassify(self, text)

(***************************************************************************)
(* Tables of EntityExtractor, ClauseExtractor and RiskAssessor             *)
(***************************************************************************)

\* self.date_patterns of EntityExtractor._compile_patterns
DatePatternsTable ==
    << "\\b(0?[1-9]|1[0-2])[-/](0?[1-9]|[12][0-9]|3[01])[-/](19|20)\\d\\d\\b",
       "\\b(January|February|March|April|May|June|July|August|September|October|November|December)\\s+(0?[1-9]|[12][0-9]|3[01])(st|nd|rd|th)?,\\s+(19|20)\\d\\d\\b",
       "\\b(Jan|Feb|Mar|Apr|May|Jun|Jul|Aug|Sep|Oct|Nov|Dec)\\.?\\s+(0?[1-9]|[12][0-9]|3[01])(st|nd|rd|th)?,\\s+(19|20)\\d\\d\\b",
       "\\b(19|20)\\d\\d[-](0?[1-9]|1[0-2])[-](0?[1-9]|[12][0-9]|3[01])\\b" >>

\* self.money_patterns
MoneyPatternsTable ==
    << "\\$\\s*(\\d{1,3}(?:,\\d{3})*(?:\\.\\d{1,2})?)\\b",
       "€\\s*(\\d{1,3}(?:,\\d{3})*(?:\\.\\d{1,2})?)\\b",
       "£\\s*(\\d{1,3}(?:,\\d{3})*(?:\\.\\d{1,2})?)\\b",
       "\\b(\\d{1,3}(?:,\\d{3})*(?:\\.\\d{1,2})?\\s*(?:dollars|euros|pounds))\\b",
       "\\b(\\d{1,3}(?:,\\d{3})*(?:\\.\\d{1,2})?\\s*(?:USD|EUR|GBP))\\b" >>

\* self.org_patterns
OrgPatternsTable ==
    << "\\b([A-Z][a-z]+(?:\\s+[A-Z][a-z]+)*(?:,)?\\s+(?:Inc|LLC|Ltd|Corporation|Corp|Company|Co|GmbH|LP|LLP|Limited|International))\\b",
       "\\b((?:The\\s+)?[A-Z][a-z]+(?:\\s+[A-Z][a-z]+)*\\s+(?:Trust|Foundation|Association|Institute|University|College|School))\\b" >>

\* self.person_patterns
PersonPatternsTable ==
    << "\\b((?:Mr|Mrs|Ms|Dr|Prof)\\.\\s+(?:[A-Z][a-z]+\\s+)+(?:[A-Z][a-z]+))\\b",
       "\\b((?:[A-Z][a-z]+\\s+)(?:[A-Z]\\.\\s+)?(?:[A-Z][a-z]+))\\b" >>

\* self.section_patterns of ClauseExtractor.__init__ (compiled with re.MULTILINE)
SectionPatternsTable ==
    << "(?:^|\\n)(?:\\s*)(\\d+(?:\\.\\d+)*)\\s+([^\\n]+)",
       "(?:^|\\n)(?:\\s*)([A-Z][A-Z\\s]+[A-Z])(?:\\.|:|\\n)",
       "(?:^|\\n)(?:\\s*)((?:[A-Z][a-z]+\\s*)+)(?:\\.|:|\\n)" >>

\* self.clause_types of ClauseExtractor.__init__, in the order of the dict
ClauseTypesTable ==
    << [name |-> "definition",
        indicators |-> << "definitions", "defined terms", "interpretation", "meaning of" >>],
       [name |-> "payment",
        indicators |-> << "payment", "consideration", "fees", "compensation", "price" >>],
       [name |-> "term",
        indicators |-> << "term of", "duration", "period", "agreement term" >>],
       [name |-> "termination",
        indicators |-> << "termination", "cancellation", "ending the agreement" >>],
       [name |-> "confidentiality",
        indicators |-> << "confidentiality", "confidential information", "non-disclosure" >>],
       [name |-> "governing-law",
        indicators |-> << "governing law", "applicable law", "jurisdiction", "choice of law" >>],
       [name |-> "indemnification",
        indicators |-> << "indemnification", "indemnity", "hold harmless" >>],
       [name |-> "warranty",
        indicators |-> << "warranty", "warranties", "representations" >>],
       [name |-> "limitation-of-liability",
        indicators |-> << "limitation of liability", "limited liability", "liability cap", "limitation on liability" >>],
       [name |-> "assignment",
        indicators |-> << "assignment", "assignability", "transfer of" >>],
       [name |-> "force-majeure",
        indicators |-> << "force majeure", "act of god", "events beyond control" >>],
       [name |-> "notice",
        indicators |-> << "notice", "notification", "communications" >>],
       [name |-> "amendment",
        indicators |-> << "amendment", "modification", "changes to this agreement" >>],
       [name |-> "dispute-resolution",
        indicators |-> << "dispute resolution", "arbitration", "mediation", "litigation" >>] >>

\* self.risk_patterns of RiskAssessor._define_risk_patterns, in the order of the dict
RiskPatternsTable ==
    << [id |-> "unlimited-indemnification",
        pattern |-> "indemnify.*(?:all|any).*(?:losses|damages|claims|liabilities|expenses|costs)",
        severity |-> "high", category |-> "financial",
        description |-> "Unlimited indemnification",
        recommendation |-> "Limit indemnification to direct damages with a cap"],
       [id |-> "broad-indemnification",
        pattern |-> "indemnify.*(?:indirect|consequential|special|punitive).*damages",
        severity |-> "medium", category |-> "financial",
        description |-> "Indemnification includes special damages",
        recommendation |-> "Exclude indirect, consequential, special, and punitive damages"],
       [id |-> "no-liability-cap",
        pattern |-> "no\\s+(?:limit|limitation|cap|maximum).*liability",
        severity |-> "high", category |-> "financial",
        description |-> "No liability cap",
        recommendation |-> "Add a reasonable liability cap"],
       [id |-> "termination-sole-discretion",
        pattern |-> "terminat(?:e|ion).*(?:sole\\s+discretion|any\\s+reason|no\\s+reason|any\\s+time)",
        severity |-> "medium", category |-> "operational",
        description |-> "Counterparty can terminate at any time",
        recommendation |-> "Add notice period and limit termination to material breach"],
       [id |-> "no-termination-right",
        pattern |-> "(?:no|not).*right.*terminat(?:e|ion)",
        severity |-> "medium", category |-> "operational",
        description |-> "No right to terminate",
        recommendation |-> "Add right to terminate for material breach"],
       [id |-> "ip-assignment",
        pattern |-> "(?:assign|transfer|convey).*(?:all|entire|exclusive).*(?:right|title|interest).*(?:intellectual\\s+property|copyright|patent|trademark)",
        severity |-> "high", category |-> "legal",
        description |-> "Assignment of intellectual property",
        recommendation |-> "Limit to license rather than assignment, or narrow scope"],
       [id |-> "unfavorable-jurisdiction",
        pattern |-> "govern(?:ed|ing).*laws.*(?:of|in)\\s+(?!your favorable jurisdiction)",
        severity |-> "medium", category |-> "legal",
        description |-> "Potentially unfavorable governing law",
        recommendation |-> "Negotiate for a neutral or more favorable jurisdiction"],
       [id |-> "perpetual-confidentiality",
        pattern |-> "confidential(?:ity)?.*(?:perpetual|indefinite|unlimited|no expiration)",
        severity |-> "medium", category |-> "compliance",
        description |-> "Perpetual confidentiality obligation",
        recommendation |-> "Limit confidentiality term to reasonable period (2-5 years)"],
       [id |-> "unilateral-changes",
        pattern |-> "(?:may|right to).*(?:change|modify|amend).*(?:sole discretion|any time|without notice)",
        severity |-> "medium", category |-> "operational",
        description |-> "Counterparty can make unilateral changes",
        recommendation |-> "Require mutual agreement for changes"],
       [id |-> "broad-non-compete",
        pattern |-> "(?:non-compete|not compete|no compete).*(?:worldwide|global|any|all)",
        severity |-> "medium", category |-> "legal",
        description |-> "Overly broad non-compete",
        recommendation |-> "Limit non-compete to reasonable geographic scope and time period"],
       [id |-> "unrestricted-assignment",
        pattern |-> "(?:may|right to).*assign.*(?:without|no).*(?:consent|notice|approval)",
        severity |-> "medium", category |-> "operational",
        description |-> "Unrestricted assignment rights",
        recommendation |-> "Require consent for assignment"],
       [id |-> "payment-upon-receipt",
        pattern |-> "pay(?:ment)?.*(?:due|within).*(?:upon receipt|immediately)",
        severity |-> "low", category |-> "financial",
        description |-> "Payment due immediately",
        recommendation |-> "Negotiate for reasonable payment terms (net 30/60)"],
       [id |-> "no-warranty",
        pattern |-> "(?:no|without).*(?:warranty|warranties|guarantees?)",
        severity |-> "medium", category |-> "legal",
        description |-> "No warranty provided",
        recommendation |-> "Request standard warranties for services/products"],
       [id |-> "broad-audit-rights",
        pattern |-> "(?:audit|inspect).*(?:any time|all|entire|without notice)",
        severity |-> "low", category |-> "compliance",
        description |-> "Broad audit rights",
        recommendation |-> "Limit audit rights with reasonable notice and scope"] >>

(***************************************************************************)
(* EntityExtractor (analysis/extractor.py)                                 *)
(***************************************************************************)

\* None, for an optional field the constructing call leaves out
None == "None"

\* {}, the empty dict
EmptyDict == [x \in {} |-> 0]

\* EntityExtractor.__init__ and _compile_patterns
NewEntityExtractor ==
    [date_patterns |-> DatePatternsTable, money_patterns |-> MoneyPatternsTable,
     org_patterns |-> OrgPatternsTable, person_patterns |-> PersonPatternsTable]

\* for match in pattern.finditer(text): ....append(match.group(group))
PatternMatches(pattern, t, group) ==
    LET Groups(ms) ==
            [j \in 1..Len(ms) |->
                Str(IF group = 0 THEN Group0(t, ms[j]) ELSE GroupN(t, ms[j], group))]
    IN  Groups(ReFindIter(ReCompile(pattern), t, FALSE))

\* the two nested loops over one kind's patterns
AllMatches(patterns, t, group) ==
    Flatten([k \in 1..Len(patterns) |-> PatternMatches(patterns[k], t, group)])

\* EntityExtractor._rule_based_extract; the keys are the EntityType values
RuleBasedExtract(self, text) ==
    LET t == S(text)
    IN  [person |-> DictFromKeys(AllMatches(self.person_patterns, t, 1)),
         organization |-> DictFromKeys(AllMatches(self.org_patterns, t, 1)),
         date |-> DictFromKeys(AllMatches(self.date_patterns, t, 0)),
         money |-> DictFromKeys(AllMatches(self.money_patterns, t, 0)),
         location |-> DictFromKeys(<<>>),
         percentage |-> DictFromKeys(<<>>),
         time |-> DictFromKeys(<<>>),
         duration |-> DictFromKeys(<<>>)]

\* EntityExtractor.extract
Extract(self, text) == RuleBasedExtract(self, text)

\* for match in re.finditer(pattern, text[, re.IGNORECASE]):
\* match.group(1).strip()
PhraseCaptures(pattern, t, ic) ==
    LET Stripped(ms) == [j \in 1..Len(ms) |-> Str(StrStrip(GroupN(t, ms[j], 1)))]
    IN  Stripped(ReFindIter(ReCompile(pattern), t, ic))

\* x in xs, for a list
InList(x, xs) == \E i \in 1..Len(xs) : xs[i] = x

\* party_indicators of EntityExtractor.extract_parties
PartyIndicators ==
    << "(?:between|by and between)\\s+([^,]+)(?:,|and|\\n)",
       "(?:party of the first part|party of the second part)(?::|,)?\\s+([^,\\n]+)",
       "(?:the \"(?:Company|Employer|Client|Vendor|Supplier|Licensor|Licensee|Landlord|Tenant)\")(?::|,)?\\s+([^,\\n]+)",
       "(?:hereinafter referred to as|herein referred to as)(?::|,)?\\s+\"?([^\",\\n]+)\"?" >>

\* class Party(BaseModel): the fields the class declares; a keyword that is
\* none of them is ignored, a declared field that is not passed has its default
Party(fields) ==
    [f \in {"name", "type", "address", "contact_info", "metadata"} |->
        IF f \in DOMAIN fields THEN fields[f]
        ELSE IF f = "metadata" THEN EmptyDict ELSE None]

\* EntityExtractor.extract_parties: Party(id=f"party-{i+1}", name=name) for
\* the names of the organization entities followed by the phrase captures,
\* without repetitions
ExtractParties(self, text) ==
    LET Parties(names) ==
            [i \in 1..Len(names) |->
                Party([id |-> "party-" \o ToString(i), name |-> names[i]])]
        Names(t, organizations) ==
            DictFromKeys(organizations \o
                Flatten([k \in 1..Len(PartyIndicators) |->
                            PhraseCaptures(PartyIndicators[k], t, FALSE)]))
    IN  Parties(Names(S(text), Extract(self, text).organization))

\* effective_patterns of EntityExtractor.extract_dates
EffectivePatterns ==
    << "(?:effective\\s+(?:as\\s+of\\s+|date:?\\s*))([^,\\n]+)",
       "(?:agreement\\s+date:?\\s*)([^,\\n]+)",
       "(?:dated\\s+(?:as\\s+of\\s+)?)([^,\\n]+)" >>

\* termination_patterns of EntityExtractor.extract_dates
TerminationPatterns ==
    << "(?:terminat(?:es|ion)\\s+(?:date|on):?\\s*)([^,\\n]+)",
       "(?:expir(?:es|ation)\\s+(?:date|on):?\\s*)([^,\\n]+)",
       "(?:end\\s+date:?\\s*)([^,\\n]+)" >>

\* ContractDates(): every date field has the default None
NewContractDates ==
    [effective |-> None, execution |-> None, expiration |-> None,
     renewal |-> None, termination |-> None]

\* the two nested loops of extract_dates over one list of phrase patterns,
\* accepting every capture whether it is a date entity or not
PhraseDateUnchecked(patterns, t, all_dates) ==
    LET Last(accepted) ==
            LET assigning == {k \in 1..Len(patterns) : accepted[k] # <<>>}
            IN  IF assigning = {} THEN None ELSE accepted[MaxOf(assigning)][1]
    IN  Last([k \in 1..Len(patterns) |-> PhraseCaptures(patterns[k], t, TRUE)])

\* the two nested loops of extract_dates over one list of phrase patterns:
\* `break` leaves the loop over one pattern's matches only, so every pattern
\* with a capture among the date entities assigns the field in its turn
PhraseDate(patterns, t, all_dates) ==
    LET Last(accepted) ==
            LET assigning == {k \in 1..Len(patterns) : accepted[k] # <<>>}
            IN  IF assigning = {} THEN None ELSE accepted[MaxOf(assigning)][1]
    IN  Last([k \in 1..Len(patterns) |->
                SelectSeq(PhraseCaptures(patterns[k], t, TRUE),
                          LAMBDA date_text : InList(date_text, all_dates))])

\* EntityExtractor.extract_dates
ExtractDates(self, text) ==
    LET Dates(t, all_dates) ==
            [NewContractDates EXCEPT
                !.effective = PhraseDate(EffectivePatterns, t, all_dates),
                !.termination = PhraseDate(TerminationPatterns, t, all_dates)]
    IN  Dates(S(text), Extract(self, text).date)

(***************************************************************************)
(* ClauseExtractor (analysis/extractor.py)                                 *)
(***************************************************************************)

\* ClauseExtractor.__init__
NewClauseExtractor ==
    [clause_types |-> ClauseTypesTable, section_patterns |-> SectionPatternsTable]

\* len(match.groups()): the number of capturing groups of a pattern
RECURSIVE NGroups(_)
NGroups(n) ==
    CASE n.k = "grp" -> 1 + NGroups(n.x)
      [] n.k \in {"rep", "la"} -> NGroups(n.x)
      [] n.k \in {"seq", "alt"} -> SumSeq([i \in 1..Len(n.xs) |-> NGroups(n.xs[i])])
      [] OTHER -> 0

\* re.split(pattern, text) for a pattern without groups: the pieces of the
\* text between the successive matches
ReSplit(re, t) ==
    LET Between(ms) ==
            [k \in 1..(Len(ms) + 1) |->
                Slice(t, IF k = 1 THEN 1 ELSE ms[k - 1].e,
                         IF k = Len(ms) + 1 THEN Len(t) + 1 ELSE ms[k].s)]
    IN  Between(ReFindIter(re, t, FALSE))

\* section_positions of _extract_sections for the matches of one pattern:
\* (title, position) with position = match.start(1), counted from 1
SectionPositions(pattern, t) ==
    LET Positions(groups, ms) ==
            [j \in 1..Len(ms) |->
                [title |-> IF groups = 1 THEN GroupN(t, ms[j], 1)
                           ELSE GroupN(t, ms[j], 1) \o S(" ") \o GroupN(t, ms[j], 2),
                 position |-> ms[j].g[1][1]]]
        Of(re) == Positions(NGroups(re), ReFindIter(re, t, FALSE))
    IN  Of(ReCompile(pattern))

\* the content between a title and the next one (or the end of the text)
SectionsOf(sp, t) ==
    [i \in 1..Len(sp) |->
        [title |-> Str(sp[i].title),
         content |-> Str(StrStrip(
            Slice(t, sp[i].position + Len(sp[i].title),
                     IF i < Len(sp) THEN sp[i + 1].position ELSE Len(t) + 1)))]]

\* the fallback of _extract_sections: one section per paragraph
ParagraphSections(t) ==
    LET Section(lines) ==
            [title |-> Str(StrStrip(lines[1])),
             content |-> Str(StrStrip(StrJoin(SubSeq(lines, 2, Len(lines)), S("\n"))))]
        Sections(paragraphs) ==
            [i \in 1..Len(paragraphs) |-> Section(StrSplit(paragraphs[i], "\n"))]
    IN  Sections(ReSplit(ReCompile("\\n\\s*\\n"), t))

\* _extract_sections without the `break`: every pattern with a match adds its
\* sections
ExtractSectionsAllPatterns(self, text) ==
    LET Sections(t, found) ==
            IF found # {}
            THEN Flatten([k \in 1..Cardinality(found) |->
                    SectionsOf(SectionPositions(self.section_patterns[KthOf(found, k)], t), t)])
            ELSE ParagraphSections(t)
        Of(t) == Sections(t, {k \in 1..Len(self.section_patterns) :
                                 ReFound(ReCompile(self.section_patterns[k]), t, FALSE)})
    IN  Of(S(text))

\* ClauseExtractor._extract_sections: the first pattern with a match decides
ExtractSections(self, text) ==
    LET Sections(t, found) ==
            IF found # {}
            THEN SectionsOf(SectionPositions(self.section_patterns[MinOf(found)], t), t)
            ELSE ParagraphSections(t)
        Of(t) == Sections(t, {k \in 1..Len(self.section_patterns) :
                                 ReFound(ReCompile(self.section_patterns[k]), t, FALSE)})
    IN  Of(S(text))

\* _determine_clause_type with one loop over the types, looking for the
\* indicators of each type in the title and in the content
DetermineClauseTypeEitherPlace(self, title, content) ==
    LET title_lower == StrLower(S(title))
        content_lower == StrLower(S(content))
        types == self.clause_types
        HasIn(i, where) == \E k \in 1..Len(types[i].indicators) :
                              StrContains(where, StrLower(S(types[i].indicators[k])))
        in_either == {i \in 1..Len(types) :
                         HasIn(i, title_lower) \/ HasIn(i, Take(content_lower, 100))}
    IN  IF in_either # {} THEN types[MinOf(in_either)].name
        ELSE "other"

\* ClauseExtractor._determine_clause_type
DetermineClauseType(self, title, content) ==
    LET title_lower == StrLower(S(title))
        content_lower == StrLower(S(content))
        types == self.clause_types
        HasIn(i, where) == \E k \in 1..Len(types[i].indicators) :
                              StrContains(where, StrLower(S(types[i].indicators[k])))
        in_title == {i \in 1..Len(types) : HasIn(i, title_lower)}
        in_content == {i \in 1..Len(types) : HasIn(i, Take(content_lower, 100))}
    IN  IF in_title # {} THEN types[MinOf(in_title)].name
        ELSE IF in_content # {} THEN types[MinOf(in_content)].name
        ELSE "other"

\* ClauseExtractor.extract
ExtractClauses(self, text) ==
    LET Clauses(sections) ==
            [i \in 1..Len(sections) |->
                [id |-> "clause-" \o ToString(i),
                 title |-> sections[i].title,
                 content |-> sections[i].content,
                 type |-> DetermineClauseType(self, sections[i].title,
                                              sections[i].content)]]
    IN  Clauses(ExtractSections(self, text))

(***************************************************************************)
(* RiskAssessor (analysis/risk.py)                                         *)
(***************************************************************************)

\* RiskAssessor.__init__
NewRiskAssessor == [risk_patterns |-> RiskPatternsTable]

\* the Risk(...) calls of risk.py
Risk(id, description, category, severity, recommendation, clause_id) ==
    [id |-> id, description |-> description, category |-> category,
     severity |-> severity, recommendation |-> recommendation,
     clause_id |-> clause_id]

\* substring test on Python strings
In(sub, str) == StrContains(S(str), S(sub))

\* _check_document_type_risks looking for the words in the text as it is
CheckDocumentTypeRisksCaseSensitive(document_type, text) ==
    LET lower == text
    IN  IF document_type = "non-disclosure-agreement"
        THEN IF ~In("mutual", lower) /\ ~In("two-way", lower)
             THEN << Risk("risk-doc-1", "One-way confidentiality obligations",
                          "legal", "medium",
                          "Consider requesting mutual confidentiality obligations",
                          None) >>
             ELSE <<>>
        ELSE IF document_type = "employment-agreement"
        THEN IF In("at will", lower) \/ In("at-will", lower)
             THEN << Risk("risk-doc-1", "At-will employment provision",
                          "legal", "medium",
                          "Consider negotiating for termination only for cause",
                          None) >>
             ELSE <<>>
        ELSE <<>>

\* RiskAssessor._check_document_type_risks
CheckDocumentTypeRisks(document_type, text) ==
    LET lower == Str(StrLower(S(text)))
    IN  IF document_type = "non-disclosure-agreement"
        THEN IF ~In("mutual", lower) /\ ~In("two-way", lower)
             THEN << Risk("risk-doc-1", "One-way confidentiality obligations",
                          "legal", "medium",
                          "Consider requesting mutual confidentiality obligations",
                          None) >>
             ELSE <<>>
        ELSE IF document_type = "employment-agreement"
        THEN IF In("at will", lower) \/ In("at-will", lower)
             THEN << Risk("risk-doc-1", "At-will employment provision",
                          "legal", "medium",
                          "Consider negotiating for termination only for cause",
                          None) >>
             ELSE <<>>
        ELSE <<>>

\* a check whose risk ids count the risks of the clause and leave out its id
CheckClauseRisksNumberedOnly(self, clause) ==
    LET text == StrLower(S(clause.title) \o S(" ") \o S(clause.content))
        rules == self.risk_patterns
        hit == {k \in 1..Len(rules) : ReFound(ReCompile(rules[k].pattern), text, TRUE)}
    IN  [j \in 1..Cardinality(hit) |->
            LET risk_info == rules[KthOf(hit, j)]
            IN  Risk("risk-" \o ToString(j),
                     risk_info.description, risk_info.category,
                     risk_info.severity, risk_info.recommendation, clause.id)]

\* a check that stops at the first rule found in a clause
CheckClauseRisksFirstRule(self, clause) ==
    LET text == StrLower(S(clause.title) \o S(" ") \o S(clause.content))
        rules == self.risk_patterns
        hit == {k \in 1..Len(rules) : ReFound(ReCompile(rules[k].pattern), text, TRUE)}
    IN  IF hit = {} THEN <<>>
        ELSE LET risk_info == rules[MinOf(hit)]
             IN  << Risk("risk-" \o clause.id \o "-1",
                         risk_info.description, risk_info.category,
                         risk_info.severity, risk_info.recommendation, clause.id) >>

\* RiskAssessor._check_clause_risks: one risk per rule whose pattern is found
\* in the lowered "title content" of the clause, in the order of the rules
CheckClauseRisks(self, clause) ==
    LET text == StrLower(S(clause.title) \o S(" ") \o S(clause.content))
        rules == self.risk_patterns
        hit == {k \in 1..Len(rules) : ReFound(ReCompile(rules[k].pattern), text, TRUE)}
    IN  [j \in 1..Cardinality(hit) |->
            LET risk_info == rules[KthOf(hit, j)]
            IN  Risk("risk-" \o clause.id \o "-" \o ToString(j),
                     risk_info.description, risk_info.category,
                     risk_info.severity, risk_info.recommendation, clause.id)]

\* required_clauses of _check_missing_clauses, in the order of the dicts
RequiredClausesTable ==
    << [name |-> "non-disclosure-agreement",
        required |-> << [type |-> "definition", description |-> "Definition of confidential information"],
                        [type |-> "confidentiality", description |-> "Confidentiality obligations"],
                        [type |-> "term", description |-> "Term of agreement"] >>],
       [name |-> "employment-agreement",
        required |-> << [type |-> "payment", description |-> "Compensation terms"],
                        [type |-> "term", description |-> "Employment term"],
                        [type |-> "termination", description |-> "Termination provisions"] >>],
       [name |-> "sales-agreement",
        required |-> << [type |-> "payment", description |-> "Payment terms"],
                        [type |-> "warranty", description |-> "Warranty provisions"],
                        [type |-> "limitation-of-liability", description |-> "Limitation of liability"] >>],
       [name |-> "service-agreement",
        required |-> << [type |-> "payment", description |-> "Payment terms"],
                        [type |-> "term", description |-> "Service term"],
                        [type |-> "termination", description |-> "Termination provisions"] >>],
       [name |-> "license-agreement",
        required |-> << [type |-> "payment", description |-> "License fees"],
                        [type |-> "term", description |-> "License term"],
                        [type |-> "limitation-of-liability", description |-> "Limitation of liability"] >>],
       [name |-> "lease-agreement",
        required |-> << [type |-> "payment", description |-> "Rent payments"],
                        [type |-> "term", description |-> "Lease term"],
                        [type |-> "termination", description |-> "Termination provisions"] >>] >>

\* a check that reports every required clause type, present or not
CheckMissingClausesAllRequired(document_type, clauses) ==
    LET known == {i \in 1..Len(RequiredClausesTable) :
                     RequiredClausesTable[i].name = document_type}
    IN  IF known = {} THEN <<>>
        ELSE LET required == RequiredClausesTable[MinOf(known)].required
             IN  [j \in 1..Len(required) |->
                    Risk("risk-missing-" \o required[j].type,
                         "Missing " \o required[j].description, "legal", "medium",
                         "Add a " \o required[j].type \o " clause", None)]

\* RiskAssessor._check_missing_clauses
CheckMissingClauses(document_type, clauses) ==
    LET present_clause_types == {clauses[i].type : i \in 1..Len(clauses)}
        known == {i \in 1..Len(RequiredClausesTable) :
                     RequiredClausesTable[i].name = document_type}
    IN  IF known = {} THEN <<>>
        ELSE LET required == RequiredClausesTable[MinOf(known)].required
                 missing == {k \in 1..Len(required) :
                                required[k].type \notin present_clause_types}
             IN  [j \in 1..Cardinality(missing) |->
                    LET r == required[KthOf(missing, j)]
                    IN  Risk("risk-missing-" \o r.type,
                             "Missing " \o r.description, "legal", "medium",
                             "Add a " \o r.type \o " clause", None)]

\* RiskAssessor._rule_based_assess
RuleBasedAssess(self, document_type, clauses, text) ==
    CheckDocumentTypeRisks(document_type, text)
    \o Flatten([i \in 1..Len(clauses) |-> CheckClauseRisks(self, clauses[i])])
    \o CheckMissingClauses(document_type, clauses)

\* severity weights in which a critical risk weighs no more than a high one
SeverityWeightsCriticalAsHigh == [low |-> 1, medium |-> 3, high |-> 5, critical |-> 5]

\* severity_weights of _calculate_risk_score
SeverityWeights == [low |-> 1, medium |-> 3, high |-> 5, critical |-> 10]

\* the weighted sum taken as the top of the scale
ScoreScale == 50

\* round(num / den, 1) in tenths: the nearest tenth, a tie to the even one
RoundTenths(num, den) ==
    LET q == (10 * num) \div den
        r == (10 * num) % den
    IN  IF 2 * r < den THEN q
        ELSE IF 2 * r > den THEN q + 1
        ELSE IF q % 2 = 0 THEN q ELSE q + 1

\* a score that is not clamped at the top of the scale
CalculateRiskScoreUnclamped(risks) ==
    IF Len(risks) = 0 THEN 0
    ELSE RoundTenths(100 * SumSeq([i \in 1..Len(risks) |-> SeverityWeights[risks[i].severity]]),
                     ScoreScale)

\* RiskAssessor._calculate_risk_score, in tenths of a point (1000 is 100.0);
\* (weighted_sum / 50) * 100 in floating point rounds to the same tenth as
\* the exact quotient for every weighted sum below the cap
CalculateRiskScore(risks) ==
    IF Len(risks) = 0 THEN 0
    ELSE LET weighted_sum ==
                 SumSeq([i \in 1..Len(risks) |-> SeverityWeights[risks[i].severity]])
         IN  IF weighted_sum * 100 >= 100 * ScoreScale THEN 1000
             ELSE RoundTenths(weighted_sum * 100, ScoreScale)

\* a counting loop that stores 1 for a label instead of adding 1
RECURSIVE CountLoopStoresOne(_, _, _)
CountLoopStoresOne(labels, i, d) ==
    IF i > Len(labels) THEN d
    ELSE CountLoopStoresOne(labels, i + 1,
                            IF labels[i] \in DOMAIN d THEN d ELSE d @@ (labels[i] :> 1))

\* the counting loop of assess: d[label] = d.get(label, 0) + 1 for each risk
RECURSIVE CountLoop(_, _, _)
CountLoop(labels, i, d) ==
    IF i > Len(labels) THEN d
    ELSE CountLoop(labels, i + 1,
                   IF labels[i] \in DOMAIN d
                   THEN [d EXCEPT ![labels[i]] = @ + 1]
                   ELSE d @@ (labels[i] :> 1))

\* RiskAssessor.assess
Assess(self, document_type, clauses, text) ==
    LET Result(risks) ==
            [risks |-> risks,
             risk_score |-> CalculateRiskScore(risks),
             risk_categories |->
                 CountLoop([i \in 1..Len(risks) |-> risks[i].category], 1, EmptyDict),
             risk_severity |->
                 CountLoop([i \in 1..Len(risks) |-> risks[i].severity], 1, EmptyDict)]
    IN  Result(RuleBasedAssess(self, document_type, clauses, text))

(***************************************************************************)
(* DocumentLoader and TextPreprocessor (utils/document.py)                 *)
(***************************************************************************)

DigitVal(c) == CHOOSE k \in 0..9 : DigitSeq[k + 1] = c

\* The parse of a replacement template of re.sub: a backslash followed by
\* one or two digits is a group reference, which is an error when the
\* pattern has no such group; any other character stands for itself (no
\* template of the program has another escape).  Items with g = 0 are
\* literal characters.
RECURSIVE TemplateFrom(_, _, _)
TemplateFrom(tm, i, ngroups) ==
    IF i > Len(tm) THEN [ok |-> TRUE, items |-> <<>>]
    ELSE IF tm[i] = "\\" /\ i < Len(tm) /\ tm[i + 1] \in (CDigit \ {"0"})
    THEN LET two == i + 2 <= Len(tm) /\ tm[i + 2] \in CDigit
             index == IF two THEN 10 * DigitVal(tm[i + 1]) + DigitVal(tm[i + 2])
                      ELSE DigitVal(tm[i + 1])
             rest == TemplateFrom(tm, i + (IF two THEN 3 ELSE 2), ngroups)
         IN  IF index > ngroups THEN [ok |-> FALSE, items |-> <<>>]
             ELSE [ok |-> rest.ok, items |-> <<[g |-> index, c |-> ""]>> \o rest.items]
    ELSE LET rest == TemplateFrom(tm, i + 1, ngroups)
         IN  [ok |-> rest.ok, items |-> <<[g |-> 0, c |-> tm[i]]>> \o rest.items]

\* re.sub(pattern, repl, t): raises re.error when the template is invalid,
\* whether or not the pattern matches; otherwise every match is replaced by
\* the expansion of the template (no pattern of the program matches the
\* empty string)
ReSub(pattern, repl, t) ==
    LET Expand(tp, m) == Flatten([j \in 1..Len(tp.items) |->
                            IF tp.items[j].g = 0 THEN <<tp.items[j].c>>
                            ELSE GroupN(t, m, tp.items[j].g)])
        Replace(tp, ms) ==
            Flatten([k \in 1..(Len(ms) + 1) |->
                Slice(t, IF k = 1 THEN 1 ELSE ms[k - 1].e,
                         IF k = Len(ms) + 1 THEN Len(t) + 1 ELSE ms[k].s)
                \o (IF k <= Len(ms) THEN Expand(tp, ms[k]) ELSE <<>>)])
        With(re, tp) ==
            IF ~tp.ok THEN [raised |-> "re.error", value |-> <<>>]
            ELSE [raised |-> None, value |-> Replace(tp, ReFindIter(re, t, FALSE))]
        Of(re) == With(re, TemplateFrom(S(repl), 1, NGroups(re)))
    IN  Of(ReCompile(pattern))

\* for pattern, replacement in pairs: text = re.sub(pattern, replacement, text)
RECURSIVE SubAll(_, _, _)
SubAll(pairs, i, r) ==
    IF i > Len(pairs) \/ r.raised # None THEN r
    ELSE SubAll(pairs, i + 1, ReSub(pairs[i][1], pairs[i][2], r.value))

\* TextPreprocessor._normalize_whitespace
NormalizeWhitespace(t) ==
    LET r == SubAll(<< <<" +", " ">>, <<"\\n{3,}", "\n\n">> >>, 1,
                    [raised |-> None, value |-> t])
    IN  [r EXCEPT !.value = StrStrip(@)]

\* TextPreprocessor._remove_headers_footers
RemoveHeadersFooters(t) ==
    SubAll(<< <<"\\n\\s*\\d+\\s*\\n", "\n">>,
              <<"\\n\\s*Page \\d+ of \\d+\\s*\\n", "\n">>,
              <<"\\n\\s*CONFIDENTIAL\\s*\\n", "\n">>,
              <<"\\n\\s*\\d+\\s*\\|\\s*Page\\s*\\n", "\n">> >>, 1,
           [raised |-> None, value |-> t])

\* TextPreprocessor._fix_ocr_errors
FixOcrErrors(t) ==
    SubAll(<< <<"l\\b", "I">>,
              <<"\\bI([^a-zA-Z])", "l\\1">>,
              <<"0(?=\\d{3})", "O">>,
              <<"(\\d)O", "\\10">>,
              <<"rn", "m">> >>, 1,
           [raised |-> None, value |-> t])

\* TextPreprocessor.preprocess: the text, or the exception a step raises
Preprocess(text) ==
    LET Headers(a) == IF a.raised # None THEN a ELSE RemoveHeadersFooters(a.value)
        Ocr(b) == IF b.raised # None THEN b ELSE FixOcrErrors(b.value)
        Result(c) == [raised |-> c.raised, value |-> Str(c.value)]
    IN  Result(Ocr(Headers(NormalizeWhitespace(S(text)))))

\* the files the model works with, and pathlib's suffix and basename
Paths == {"contract.txt"}
Basename(path) ==
    LET Last(parts) == Str(parts[Len(parts)]) IN Last(StrSplit(S(path), "/"))
Suffix(path) ==
    LET Of(name) ==
            LET dots == {i \in 2..Len(name) : name[i] = "."}
            IN  IF dots = {} THEN ""
                ELSE Str(StrLower(SubSeq(name, MaxOf(dots), Len(name))))
    IN  Of(S(Basename(path)))

\* an entry of the file system: no file, or a directory
NoFile == [exists |-> FALSE, is_dir |-> FALSE, content |-> ""]
Directory == [exists |-> TRUE, is_dir |-> TRUE, content |-> ""]

\* a loader that reads a missing file as an empty text
LoadMissingAsEmpty(files, path) ==
    IF Suffix(path) = ".txt"
    THEN IF files[path].is_dir THEN [raised |-> "IsADirectoryError", value |-> ""]
         ELSE [raised |-> None, value |-> files[path].content]
    ELSE [raised |-> "ValueError", value |-> ""]

\* DocumentLoader.load for text files: the content, or the exception raised
\* (PDF and DOCX files are not among the model's files); open() raises on a
\* directory
Load(files, path) ==
    IF ~files[path].exists THEN [raised |-> "FileNotFoundError", value |-> ""]
    ELSE IF Suffix(path) = ".txt"
    THEN IF files[path].is_dir THEN [raised |-> "IsADirectoryError", value |-> ""]
         ELSE [raised |-> None, value |-> files[path].content]
    ELSE [raised |-> "ValueError", value |-> ""]

\* A preprocessor handed to ContractAnalyzer.__init__ in place of the default
\* one: it normalises white space and does nothing else
WhitespacePreprocess(text) ==
    LET Result(r) == [raised |-> r.raised, value |-> Str(r.value)]
    IN  Result(NormalizeWhitespace(S(text)))

(***************************************************************************)
(* ContractAnalyzer (analysis/analyzer.py)                                 *)
(***************************************************************************)

\* dict.get(key, default)
Get(d, key, default) == IF key \in DOMAIN d THEN d[key] ELSE default

\* ContractAnalyzer._create_contract; contract_id is the uuid4 drawn
CreateContract(contract_id, document_path, text, document_type, ents, cls) ==
    LET parties ==
            IF "parties" \in DOMAIN ents /\ Len(ents["parties"]) > 0
            THEN [i \in 1..Len(ents["parties"]) |->
                    [name |-> Get(ents["parties"][i], "name", ""),
                     type |-> Get(ents["parties"][i], "type", ""),
                     address |-> Get(ents["parties"][i], "address", "")]]
            ELSE <<>>
        date_data == IF "dates" \in DOMAIN ents THEN ents["dates"] ELSE EmptyDict
        dates == [effective |-> Get(date_data, "effective", None),
                  execution |-> Get(date_data, "execution", None),
                  expiration |-> Get(date_data, "expiration", None)]
    IN  [id |-> contract_id, title |-> Basename(document_path),
         document_type |-> document_type, text |-> text, parties |-> parties,
         dates |-> dates, clauses |-> cls, file_path |-> document_path]

\* ContractAnalyzer.analyze(document_path) as one call on the files: the
\* AnalysisResult it returns or the exception it raises; self holds the
\* analyzer's components, contract_id is the uuid4 drawn
Analyze(self, files, path, contract_id) ==
    LET Built(document_text_, processed_text_, document_type_, entities_, clauses_) ==
            [raised |-> None,
             value |->
               [contract |-> CreateContract(contract_id, path, processed_text_,
                                            document_type_, entities_, clauses_),
                document_type |-> document_type_,
                entities |-> entities_,
                clauses |-> clauses_,
                risks |-> Assess(self.risk_assessor, processed_text_, clauses_,
                                 document_type_),
                raw_text |-> document_text_,
                processed_text |-> processed_text_]]
        Stages(document_text_, processed_text_) ==
            Built(document_text_, processed_text_,
                  Classify(self.document_classifier, processed_text_),
                  Extract(self.entity_extractor, processed_text_),
                  ExtractClauses(self.clause_extractor, processed_text_))
        Preprocessed(document_text_, r) ==
            IF r.raised # None THEN [raised |-> r.raised, value |-> None]
            ELSE Stages(document_text_, r.value)
        Loaded(r) ==
            IF r.raised # None THEN [raised |-> r.raised, value |-> None]
            ELSE Preprocessed(r.value,
                              IF self.text_preprocessor = "TextPreprocessor"
                              THEN Preprocess(r.value)
                              ELSE WhitespacePreprocess(r.value))
    IN  Loaded(Load(files, path))

\* the values uuid.uuid4() may return
UUIDs == {"uuid-a", "uuid-b"}

(***************************************************************************)
(* State                                                                   *)
(***************************************************************************)

VARIABLES
    document_classifier,  \* the components of the analyzer: each is the
    entity_extractor,     \* record of its instance attributes
    clause_extractor,
    risk_assessor,
    text_preprocessor,    \* which preprocessor the analyzer was built with
    fs,                   \* the files: path -> [exists, is_dir, content]
    chunks,               \* how many chunks of text the caller has written
    text,                 \* the text a caller hands to a component
    risk_list,            \* the risk list a caller hands to the score
    returned,             \* what the last direct call of a component returned
    classified,           \* text -> the types classify has returned for it
    pc,                   \* where the analyze call stands
    document_path,        \* the local variables of analyze
    document_text,
    processed_text,
    document_type,
    entities,
    clauses,
    assess_call,          \* the parameters of assess as analyze's call binds them
    risks,
    result,               \* the AnalysisResult analyze returned
    raised,               \* the exception analyze raised
    records,              \* the rows of the contracts table, in table order
    storage,              \* storage_path: contract id -> the text of <id>.txt
    added_ids,            \* the ids the caller has added and not deleted since
    add_task,             \* where a call of add running as a background task stands
    delete_request        \* where a call of delete serving a request stands

tables == <<document_classifier, entity_extractor, clause_extractor, risk_assessor,
            text_preprocessor>>
caller == <<chunks, text, risk_list, returned, classified>>
locals == <<document_path, document_text, processed_text, document_type,
            entities, clauses, assess_call, risks, result, raised>>
repository == <<records, storage, added_ids, add_task, delete_request>>
vars == <<tables, fs, repository, caller, pc, locals>>

\* how many chunks a caller writes into one text
MaxChunks == 3

\* no call made yet
NoCall == [call |-> "none"]

Init ==
    /\ document_classifier = NewDocumentClassifier
    /\ entity_extractor = NewEntityExtractor
    /\ clause_extractor = NewClauseExtractor
    /\ risk_assessor = NewRiskAssessor
    /\ text_preprocessor \in {"TextPreprocessor", "WhitespacePreprocessor"}
    /\ fs = [p \in Paths |-> NoFile]
    /\ chunks = 0
    /\ text = ""
    /\ risk_list = <<>>
    /\ returned = NoCall
    /\ classified = EmptyDict
    /\ pc = "idle"
    /\ document_path = None
    /\ document_text = None
    /\ processed_text = None
    /\ document_type = None
    /\ entities = None
    /\ clauses = None
    /\ assess_call = None
    /\ risks = None
    /\ result = None
    /\ raised = None
    /\ records = <<>>
    /\ storage = EmptyDict
    /\ added_ids = {}
    /\ add_task = [pc |-> "idle"]
    /\ delete_request = [pc |-> "idle"]

(***************************************************************************)
(* ContractAnalyzer.analyze, one step per stage                            *)
(***************************************************************************)

\* the chunks of text the documents are made of
DocumentChunks ==
    { "CONFIDENTIALITY AGREEMENT\n",
      "LlamaSearch Inc and Test Company LLC agree.\n",
      "1 Term of agreement\nTwo  years.\n",
      "2 Confidentiality\nVendor may terminate at any time.\n",
      "Employment salary.\n\n\n\n" }

\* the environment writes a chunk to a file before the analysis
WriteFile(path, chunk) ==
    /\ pc = "idle"
    /\ chunks < MaxChunks
    /\ ~fs[path].is_dir
    /\ fs' = [fs EXCEPT ![path] = [exists |-> TRUE, is_dir |-> FALSE,
                                   content |-> @.content \o chunk]]
    /\ chunks' = chunks + 1
    /\ UNCHANGED <<tables, repository, text, risk_list, returned, classified, pc, locals>>

\* analyze(document_path) up to self.document_loader.load
LoadDocument(path) ==
    /\ pc = "idle"
    /\ LET Loaded(r) ==
               /\ document_path' = path
               /\ IF r.raised # None
                  THEN /\ pc' = "raised"
                       /\ raised' = r.raised
                       /\ UNCHANGED document_text
                  ELSE /\ pc' = "loaded"
                       /\ document_text' = r.value
                       /\ UNCHANGED raised
       IN  Loaded(Load(fs, path))
    /\ UNCHANGED <<tables, fs, repository, caller, processed_text, document_type, entities,
                   clauses, assess_call, risks, result>>

\* processed_text = self.text_preprocessor.preprocess(document_text)
PreprocessText ==
    /\ pc = "loaded"
    /\ LET Preprocessed(r) ==
               IF r.raised # None
               THEN /\ pc' = "raised"
                    /\ raised' = r.raised
                    /\ UNCHANGED processed_text
               ELSE /\ pc' = "preprocessed"
                    /\ processed_text' = r.value
                    /\ UNCHANGED raised
       IN  Preprocessed(IF text_preprocessor = "TextPreprocessor"
                        THEN Preprocess(document_text)
                        ELSE WhitespacePreprocess(document_text))
    /\ UNCHANGED <<tables, fs, repository, caller, document_path, document_text, document_type,
                   entities, clauses, assess_call, risks, result>>

\* document_type = self.document_classifier.classify(processed_text)
ClassifyDocument ==
    /\ pc = "preprocessed"
    /\ document_type' = Classify(document_classifier, processed_text)
    /\ pc' = "classified"
    /\ UNCHANGED <<tables, fs, repository, caller, document_path, document_text, processed_text,
                   entities, clauses, assess_call, risks, result, raised>>

\* entities = self.entity_extractor.extract(processed_text)
ExtractEntities ==
    /\ pc = "classified"
    /\ entities' = Extract(entity_extractor, processed_text)
    /\ pc' = "extracted"
    /\ UNCHANGED <<tables, fs, repository, caller, document_path, document_text, processed_text,
                   document_type, clauses, assess_call, risks, result, raised>>

\* clauses = self.clause_extractor.extract(processed_text)
SegmentClauses ==
    /\ pc = "extracted"
    /\ clauses' = ExtractClauses(clause_extractor, processed_text)
    /\ pc' = "segmented"
    /\ UNCHANGED <<tables, fs, repository, caller, document_path, document_text, processed_text,
                   document_type, entities, assess_call, risks, result, raised>>

\* risks = self.risk_assessor.assess(processed_text, clauses, document_type):
\* the positional arguments bind to assess(document_type, clauses, text)
AssessRisks ==
    /\ pc = "segmented"
    /\ assess_call' = [document_type |-> processed_text, clauses |-> clauses,
                       text |-> document_type]
    /\ risks' = Assess(risk_assessor, processed_text, clauses, document_type)
    /\ pc' = "assessed"
    /\ UNCHANGED <<tables, fs, repository, caller, document_path, document_text, processed_text,
                   document_type, entities, clauses, result, raised>>

\* contract = self._create_contract(...); return AnalysisResult(...)
ReturnResult ==
    /\ pc = "assessed"
    /\ \E contract_id \in UUIDs :
          result' = [contract |-> CreateContract(contract_id, document_path,
                                     processed_text, document_type, entities, clauses),
                     document_type |-> document_type,
                     entities |-> entities,
                     clauses |-> clauses,
                     risks |-> risks,
                     raw_text |-> document_text,
                     processed_text |-> processed_text]
    /\ pc' = "returned"
    /\ UNCHANGED <<tables, fs, repository, caller, document_path, document_text, processed_text,
                   document_type, entities, clauses, assess_call, risks, raised>>

Next ==
    \/ \E path \in Paths, chunk \in DocumentChunks : WriteFile(path, chunk)
    \/ \E path \in Paths : LoadDocument(path)
    \/ PreprocessText
    \/ ClassifyDocument
    \/ ExtractEntities
    \/ SegmentClauses
    \/ AssessRisks
    \/ ReturnResult

(***************************************************************************)
(* Direct calls of the components                                          *)
(***************************************************************************)

\* a classifier that moves the type it returns to the front of its table
AfterClassifyPromotesResult(self, t) ==
    LET types == self.document_types
        hit == {i \in 1..Len(types) : types[i].name = Classify(self, t)}
    IN  IF hit = {} THEN self
        ELSE [self EXCEPT !.document_types =
                 <<types[MinOf(hit)]>> \o SeqAt(types, (1..Len(types)) \ hit)]

\* what a call leaves in the component it is called on: classify, extract
\* and assess assign to no attribute of self
AfterClassify(self, t) == self
AfterExtract(self, t) == self
AfterExtractClauses(self, t) == self
AfterAssess(self, document_type_, clauses_, t) == self

\* the caller puts the text together, chunk by chunk, before it calls
WriteChunk(chunk) ==
    /\ returned = NoCall
    /\ chunks < MaxChunks
    /\ text' = text \o chunk
    /\ chunks' = chunks + 1
    /\ UNCHANGED <<tables, fs, repository, risk_list, returned, classified, pc, locals>>

\* TextPreprocessor().preprocess(text)
CallPreprocess ==
    /\ returned = NoCall
    /\ LET Returned(r) ==
               returned' = [call |-> "preprocess", raised |-> r.raised, value |-> r.value]
       IN  Returned(Preprocess(text))
    /\ UNCHANGED <<tables, fs, repository, chunks, text, risk_list, classified, pc, locals>>

\* DocumentClassifier.classify(text)
CallClassify ==
    /\ returned = NoCall
    /\ returned' = [call |-> "classify", raised |-> None,
                    value |-> Classify(document_classifier, text)]
    /\ document_classifier' = AfterClassify(document_classifier, text)
    /\ UNCHANGED <<entity_extractor, clause_extractor, risk_assessor, text_preprocessor,
                   fs, repository, chunks, text, risk_list, classified, pc, locals>>

\* EntityExtractor.extract(text)
CallExtract ==
    /\ returned = NoCall
    /\ returned' = [call |-> "extract", raised |-> None,
                    value |-> Extract(entity_extractor, text)]
    /\ entity_extractor' = AfterExtract(entity_extractor, text)
    /\ UNCHANGED <<document_classifier, clause_extractor, risk_assessor, text_preprocessor,
                   fs, repository, chunks, text, risk_list, classified, pc, locals>>

\* ClauseExtractor.extract(text)
CallExtractClauses ==
    /\ returned = NoCall
    /\ returned' = [call |-> "extract_clauses", raised |-> None,
                    value |-> ExtractClauses(clause_extractor, text)]
    /\ clause_extractor' = AfterExtractClauses(clause_extractor, text)
    /\ UNCHANGED <<document_classifier, entity_extractor, risk_assessor, text_preprocessor,
                   fs, repository, chunks, text, risk_list, classified, pc, locals>>

\* RiskAssessor.assess(document_type, clauses, text) with the clauses the
\* clause extractor finds in the text
CallAssess(type) ==
    /\ returned = NoCall
    /\ LET Assessed(cls) ==
               /\ returned' = [call |-> "assess", raised |-> None, document_type |-> type,
                               clauses |-> cls,
                               value |-> Assess(risk_assessor, type, cls, text)]
               /\ risk_assessor' = AfterAssess(risk_assessor, type, cls, text)
       IN  Assessed(ExtractClauses(clause_extractor, text))
    /\ UNCHANGED <<document_classifier, entity_extractor, clause_extractor,
                   text_preprocessor, fs, repository, chunks, text, risk_list, classified, pc, locals>>

\* the stages called one by one on a text, each on the output of the ones
\* before it
StageChunks == { " ", "\n", "Lease of the premises.", "1 Term of lease\n" }

NextStages ==
    \/ \E chunk \in StageChunks : WriteChunk(chunk)
    \/ CallPreprocess
    \/ CallClassify
    \/ CallExtract
    \/ CallExtractClauses
    \/ CallAssess(Classify(document_classifier, text))

\* the components as their own constructors build them
InitComponents == Init /\ text_preprocessor = "TextPreprocessor"

SpecStages == InitComponents /\ [][NextStages]_vars

\* the clause extractor called on texts without headings
ParagraphChunks == { "rent is due\n", "on the first day", "\n", " " }

NextParagraphs ==
    \/ \E chunk \in ParagraphChunks : WriteChunk(chunk)
    \/ CallExtractClauses

SpecParagraphs == InitComponents /\ [][NextParagraphs]_vars

\* assess called on the clauses of a text, for a document type of the
\* caller's choice
RiskChunks ==
    { "1 Term of agreement\n",
      "We indemnify you for all losses.\n",
      "2 Payment due upon receipt\n",
      "Vendor may audit all records without notice.\n" }
AssessedTypes == {"non-disclosure-agreement", "employment-agreement", "unknown"}

NextAssessor ==
    \/ \E chunk \in RiskChunks : WriteChunk(chunk)
    \/ \E type \in AssessedTypes : CallAssess(type)

SpecAssessor == InitComponents /\ [][NextAssessor]_vars

\* assess called on clauses that the rules of the assessor fire on
ClauseRiskChunks ==
    { "1 We indemnify all losses, damages, and claims\n",
      "2 Vendor may terminate at any time and audit all records\n",
      "3 Term of lease\n" }

NextClauseRisks ==
    \/ \E chunk \in ClauseRiskChunks : WriteChunk(chunk)
    \/ \E type \in AssessedTypes : CallAssess(type)

SpecClauseRisks == InitComponents /\ [][NextClauseRisks]_vars

\* how many risks a caller puts into one list
MaxRisks == 6

\* RiskAssessor._calculate_risk_score(risk_list)
CallScore ==
    /\ returned = NoCall
    /\ returned' = [call |-> "_calculate_risk_score", raised |-> None,
                    value |-> CalculateRiskScore(risk_list)]
    /\ UNCHANGED <<tables, fs, repository, chunks, text, risk_list, classified, pc, locals>>

\* the caller appends a risk to the list and has the longer list scored
AppendRiskAndScore(severity) ==
    /\ returned # NoCall
    /\ Len(risk_list) < MaxRisks
    /\ risk_list' = Append(risk_list,
                           Risk("risk-" \o ToString(Len(risk_list) + 1), "A risk",
                                "legal", severity, "A recommendation", None))
    /\ returned' = [call |-> "_calculate_risk_score", raised |-> None,
                    value |-> CalculateRiskScore(risk_list')]
    /\ UNCHANGED <<tables, fs, repository, chunks, text, classified, pc, locals>>

NextScore ==
    \/ CallScore
    \/ \E severity \in DOMAIN SeverityWeights : AppendRiskAndScore(severity)

SpecScore == InitComponents /\ [][NextScore]_vars

\* classify called on a text
ClassifierChunks ==
    { "Confidentiality\n",
      "salary and compensation ",
      "salary ",
      "rent ",
      "Trade\nsecrets of the parent\n\n\n\n\n",
      "resale of SERVICES " }

NextClassifier ==
    \/ \E chunk \in ClassifierChunks : WriteChunk(chunk)
    \/ CallClassify

SpecClassifier == InitComponents /\ [][NextClassifier]_vars

\* extract called on a text
EntityChunks ==
    { "Acme Inc, ",
      "Test Company LLC, ",
      "on 1/2/2024 ",
      "January 1, 2024 ",
      "Dr. Jane Doe " }

NextExtractor ==
    \/ \E chunk \in EntityChunks : WriteChunk(chunk)
    \/ CallExtract

SpecExtractor == InitComponents /\ [][NextExtractor]_vars

\* EntityExtractor.extract_dates(text)
CallExtractDates ==
    /\ returned = NoCall
    /\ returned' = [call |-> "extract_dates", raised |-> None,
                    value |-> ExtractDates(entity_extractor, text)]
    /\ entity_extractor' = AfterExtract(entity_extractor, text)
    /\ UNCHANGED <<document_classifier, clause_extractor, risk_assessor, text_preprocessor,
                   fs, repository, chunks, text, risk_list, classified, pc, locals>>

\* extract_dates called on a text of date phrases
DateChunks ==
    { "Effective date: 1/2/2024\n",
      "Dated 3/4/2024\n",
      "End date: 5/6/2024\n",
      "expires on 7/8/2024, ",
      "dated today\n" }

NextDates ==
    \/ \E chunk \in DateChunks : WriteChunk(chunk)
    \/ CallExtractDates

SpecDates == InitComponents /\ [][NextDates]_vars

\* EntityExtractor.extract_parties(text)
CallExtractParties ==
    /\ returned = NoCall
    /\ returned' = [call |-> "extract_parties", raised |-> None,
                    value |-> ExtractParties(entity_extractor, text)]
    /\ entity_extractor' = AfterExtract(entity_extractor, text)
    /\ UNCHANGED <<document_classifier, clause_extractor, risk_assessor, text_preprocessor,
                   fs, repository, chunks, text, risk_list, classified, pc, locals>>

\* extract_parties called on a text that names parties
PartyChunks ==
    { "between Acme Inc and Bob, ",
      "Acme Inc, ",
      "herein referred to as Bob\n",
      "the \"Client\": Bolt LLC\n",
      "party of the first part: Acme Inc\n" }

NextParties ==
    \/ \E chunk \in PartyChunks : WriteChunk(chunk)
    \/ CallExtractParties

SpecParties == InitComponents /\ [][NextParties]_vars

\* extract called on a text with headings of the three kinds and plain lines
SectionChunks ==
    { "1 Term of lease\n",
      "2  Rent\n",
      "GOVERNING LAW\n",
      "Payment Terms:\n",
      "rent is due\n\n" }

NextSections ==
    \/ \E chunk \in SectionChunks : WriteChunk(chunk)
    \/ CallExtractClauses

SpecSections == InitComponents /\ [][NextSections]_vars

\* extract called on a text whose titles and contents name clause types
ClauseTypeChunks ==
    { "1 Termination\nPayment of fees\n",
      "2 Other\n",
      "Payment of fees\n",
      "the tenant shall keep the premises clean and in good repair and shall return them in that state against payment\n" }

NextClauseTypes ==
    \/ \E chunk \in ClauseTypeChunks : WriteChunk(chunk)
    \/ CallExtractClauses

SpecClauseTypes == InitComponents /\ [][NextClauseTypes]_vars

\* assess called on a text with the words the document type checks look for
DocumentRiskChunks ==
    { "This NDA is MUTUAL.\n",
      "Employment is At-Will.\n",
      "a two-way or at will deal\n",
      "We indemnify you for all losses.\n" }

NextDocumentRisks ==
    \/ \E chunk \in DocumentRiskChunks : WriteChunk(chunk)
    \/ \E type \in AssessedTypes : CallAssess(type)

SpecDocumentRisks == InitComponents /\ [][NextDocumentRisks]_vars

\* One classifier, one entity extractor, one clause extractor and one risk
\* assessor serve calls on several documents in any order.
SharedDocuments ==
    { "rent and salary",
      "rent",
      "Confidentiality\n1 Term\nVendor may audit all records." }

\* how often the callers classify one text
MaxCallsPerText == 2

SharedClassify(doc) ==
    /\ Len(Get(classified, doc, <<>>)) < MaxCallsPerText
    /\ LET Classified(type) ==
               /\ classified' = IF doc \in DOMAIN classified
                                THEN [classified EXCEPT ![doc] = Append(@, type)]
                                ELSE classified @@ (doc :> <<type>>)
               /\ returned' = [call |-> "classify", raised |-> None, value |-> type]
       IN  Classified(Classify(document_classifier, doc))
    /\ document_classifier' = AfterClassify(document_classifier, doc)
    /\ UNCHANGED <<entity_extractor, clause_extractor, risk_assessor, text_preprocessor,
                   fs, repository, chunks, text, risk_list, pc, locals>>

SharedExtract(doc) ==
    /\ returned' = [call |-> "extract", raised |-> None,
                    value |-> Extract(entity_extractor, doc)]
    /\ entity_extractor' = AfterExtract(entity_extractor, doc)
    /\ UNCHANGED <<document_classifier, clause_extractor, risk_assessor, text_preprocessor,
                   fs, repository, chunks, text, risk_list, classified, pc, locals>>

SharedAssess(doc) ==
    /\ LET Assessed(type, cls) ==
               /\ returned' = [call |-> "assess", raised |-> None, document_type |-> type,
                               clauses |-> cls,
                               value |-> Assess(risk_assessor, type, cls, doc)]
               /\ risk_assessor' = AfterAssess(risk_assessor, type, cls, doc)
       IN  Assessed(Classify(document_classifier, doc),
                    ExtractClauses(clause_extractor, doc))
    /\ clause_extractor' = AfterExtractClauses(clause_extractor, doc)
    /\ UNCHANGED <<document_classifier, entity_extractor, text_preprocessor,
                   fs, repository, chunks, text, risk_list, classified, pc, locals>>

NextShared ==
    \/ \E doc \in SharedDocuments : SharedClassify(doc)
    \/ \E doc \in SharedDocuments : SharedExtract(doc)
    \/ \E doc \in SharedDocuments : SharedAssess(doc)

SpecShared == InitComponents /\ [][NextShared]_vars

(***************************************************************************)
(* ContractAnalyzer.batch_analyze                                          *)
(***************************************************************************)

\* DocumentLoader.supported_extensions
SupportedExtensions == <<".txt", ".pdf", ".docx">>

\* the entries of the directory handed to batch_analyze
BatchPaths == {"a.txt", "b.txt", "notes.md"}
BatchChunks == {"Lease of the premises.\n"}

\* the analyzer's components as analyze reads them from self
Analyzer ==
    [document_classifier |-> document_classifier,
     entity_extractor |-> entity_extractor,
     clause_extractor |-> clause_extractor,
     risk_assessor |-> risk_assessor,
     text_preprocessor |-> text_preprocessor]

\* the sequences that list every element of a set once
Orders(P) ==
    {o \in [1..Cardinality(P) -> P] : \A i, j \in 1..Cardinality(P) : o[i] = o[j] => i = j}

\* directory_path.glob("**/*" + extension): the entries, files or
\* directories, whose name ends with the extension
GlobMatches(path, extension) ==
    /\ Len(path) > Len(extension)
    /\ SubSeq(path, Len(path) - Len(extension) + 1, Len(path)) = extension

Glob(files, extension) ==
    {path \in DOMAIN files : files[path].exists /\ GlobMatches(path, extension)}

\* the documents list of batch_analyze: extension after extension, the
\* entries of one extension in the order the file system lists them
RECURSIVE DocumentLists(_, _)
DocumentLists(files, k) ==
    IF k > Len(SupportedExtensions) THEN {<<>>}
    ELSE {first \o rest : first \in Orders(Glob(files, SupportedExtensions[k])),
                          rest \in DocumentLists(files, k + 1)}

\* a loop that lets the first exception end the batch
BatchResultsUntilError(self, files, documents, ids) ==
    LET Kept(outcomes) ==
            LET failed == {i \in 1..Len(outcomes) : outcomes[i].raised # None}
                stop == IF failed = {} THEN Len(outcomes) ELSE MinOf(failed) - 1
            IN  [k \in 1..stop |-> outcomes[k].value]
    IN  Kept([i \in 1..Len(documents) |-> Analyze(self, files, documents[i], ids[i])])

\* the loop of batch_analyze: results.append(self.analyze(document_path)),
\* except Exception: continue
BatchResults(self, files, documents, ids) ==
    LET Kept(outcomes) ==
            LET ok == {i \in 1..Len(outcomes) : outcomes[i].raised = None}
            IN  [k \in 1..Cardinality(ok) |-> outcomes[KthOf(ok, k)].value]
    IN  Kept([i \in 1..Len(documents) |-> Analyze(self, files, documents[i], ids[i])])

\* the environment makes a directory
MakeDirectory(path) ==
    /\ pc = "idle"
    /\ ~fs[path].exists
    /\ fs' = [fs EXCEPT ![path] = Directory]
    /\ UNCHANGED <<tables, repository, caller, pc, locals>>

\* ContractAnalyzer.batch_analyze(directory_path); every analyze draws a
\* uuid4 of its own
BatchAnalyze ==
    /\ pc = "idle"
    /\ \E documents \in DocumentLists(fs, 1) :
          \E ids \in [1..Len(documents) -> UUIDs] :
             /\ \A i, j \in 1..Len(documents) : ids[i] = ids[j] => i = j
             /\ returned' = [call |-> "batch_analyze", raised |-> None,
                             documents |-> documents,
                             value |-> BatchResults(Analyzer, fs, documents, ids)]
    /\ pc' = "returned"
    /\ UNCHANGED <<tables, fs, repository, chunks, text, risk_list, classified, locals>>

InitBatch ==
    /\ document_classifier = NewDocumentClassifier
    /\ entity_extractor = NewEntityExtractor
    /\ clause_extractor = NewClauseExtractor
    /\ risk_assessor = NewRiskAssessor
    /\ text_preprocessor \in {"TextPreprocessor", "WhitespacePreprocessor"}
    /\ fs = [p \in BatchPaths |-> NoFile]
    /\ chunks = 0
    /\ text = ""
    /\ risk_list = <<>>
    /\ returned = NoCall
    /\ classified = EmptyDict
    /\ pc = "idle"
    /\ document_path = None
    /\ document_text = None
    /\ processed_text = None
    /\ document_type = None
    /\ entities = None
    /\ clauses = None
    /\ assess_call = None
    /\ risks = None
    /\ result = None
    /\ raised = None
    /\ records = <<>>
    /\ storage = EmptyDict
    /\ added_ids = {}
    /\ add_task = [pc |-> "idle"]
    /\ delete_request = [pc |-> "idle"]

NextBatch ==
    \/ \E path \in BatchPaths, chunk \in BatchChunks : WriteFile(path, chunk)
    \/ \E path \in BatchPaths : MakeDirectory(path)
    \/ BatchAnalyze

SpecBatch == InitBatch /\ [][NextBatch]_vars

\* analyze on a directory that holds text files, directories and a file of
\* an unsupported format
NextAnalyze ==
    \/ \E path \in BatchPaths, chunk \in BatchChunks : WriteFile(path, chunk)
    \/ \E path \in BatchPaths : MakeDirectory(path)
    \/ \E path \in BatchPaths : LoadDocument(path)
    \/ PreprocessText
    \/ ClassifyDocument
    \/ ExtractEntities
    \/ SegmentClauses
    \/ AssessRisks
    \/ ReturnResult

SpecAnalyze == InitBatch /\ [][NextAnalyze]_vars

(***************************************************************************)
(* ContractRepository (storage/repository.py)                              *)
(***************************************************************************)

\* ContractRecord.to_contract: the Contract built from a row
ToContract(record) ==
    [id |-> record.id, title |-> record.title,
     document_type |-> record.document_type, filename |-> record.filename,
     dates |-> [effective |-> record.effective_date,
                termination |-> record.termination_date],
     parties |-> record.parties, clauses |-> record.clauses, risks |-> record.risks]

\* session.query(ContractRecord).filter_by(id=contract_id): the positions of
\* the rows with the id
RowsWithId(rows, contract_id) == {i \in 1..Len(rows) : rows[i].id = contract_id}

\* ContractRepository._save_document_text: <contract_id>.txt is written anew
SaveDocumentText(files, contract_id, document) ==
    [k \in DOMAIN files \cup {contract_id} |->
        IF k = contract_id THEN document ELSE files[k]]

\* os.remove(doc_path)
RemoveDocumentText(files, contract_id) ==
    [k \in DOMAIN files \ {contract_id} |-> files[k]]

\* ContractRepository.add: the id returned or the exception raised, and the
\* table and the text files after the call. contract.filename is read from
\* the contract; the row keeps the lists that json.loads gives back from the
\* dumped parties, clauses and risks
RepositoryAdd(rows, files, analysis_result) ==
    LET contract == analysis_result.contract
        contract_record ==
            [id |-> contract.id, title |-> contract.title,
             document_type |-> analysis_result.document_type,
             filename |-> contract.filename,
             effective_date |-> contract.dates.effective,
             termination_date |-> Get(contract.dates, "termination", None),
             parties |-> contract.parties, clauses |-> contract.clauses,
             risks |-> analysis_result.risks,
             risk_score |-> Get(analysis_result.metadata, "risk_score", None)]
        existing == RowsWithId(rows, contract.id)
    IN  IF "filename" \notin DOMAIN contract
        THEN [raised |-> "AttributeError", value |-> None,
              records |-> rows, storage |-> files]
        ELSE [raised |-> None, value |-> contract.id,
              records |-> IF existing # {}
                          THEN [rows EXCEPT ![MinOf(existing)] = contract_record]
                          ELSE Append(rows, contract_record),
              storage |-> IF analysis_result.raw_text # ""
                          THEN SaveDocumentText(files, contract.id,
                                                analysis_result.raw_text)
                          ELSE files]

\* ContractRepository.get
RepositoryGet(rows, contract_id) ==
    IF RowsWithId(rows, contract_id) = {} THEN None
    ELSE ToContract(rows[MinOf(RowsWithId(rows, contract_id))])

\* a delete that leaves the text file of the contract in place
RepositoryDeleteKeepsText(rows, files, contract_id) ==
    IF RowsWithId(rows, contract_id) = {}
    THEN [value |-> FALSE, records |-> rows, storage |-> files]
    ELSE [value |-> TRUE,
          records |-> SeqAt(rows, (1..Len(rows)) \ {MinOf(RowsWithId(rows, contract_id))}),
          storage |-> files]

\* ContractRepository.delete
RepositoryDelete(rows, files, contract_id) ==
    IF RowsWithId(rows, contract_id) = {}
    THEN [value |-> FALSE, records |-> rows, storage |-> files]
    ELSE [value |-> TRUE,
          records |-> SeqAt(rows, (1..Len(rows)) \ {MinOf(RowsWithId(rows, contract_id))}),
          storage |-> RemoveDocumentText(files, contract_id)]

\* ContractRepository.list
RepositoryList(rows, document_type_) ==
    LET kept == {i \in 1..Len(rows) :
                    document_type_ \in {None, ""} \/ rows[i].document_type = document_type_}
    IN  [k \in 1..Cardinality(kept) |-> ToContract(rows[KthOf(kept, k)])]

\* ContractRepository.search: a title match ends the row; a party match is
\* followed by the check of the text file
RepositorySearch(rows, files, query) ==
    LET Has(str) == StrContains(StrLower(S(str)), StrLower(S(query)))
        Hits(record) ==
            IF Has(record.title) THEN << ToContract(record) >>
            ELSE (IF \E i \in 1..Len(record.parties) :
                        Has(Get(record.parties[i], "name", ""))
                  THEN << ToContract(record) >> ELSE <<>>)
                 \o (IF record.id \in DOMAIN files /\ Has(files[record.id])
                     THEN << ToContract(record) >> ELSE <<>>)
    IN  Flatten([i \in 1..Len(rows) |-> Hits(rows[i])])

\* ContractRepository.get_document_text
RepositoryGetDocumentText(files, contract_id) ==
    IF contract_id \in DOMAIN files THEN files[contract_id] ELSE None

\* the analyzer that hands its results to the repository: one built with a
\* preprocessor that returns, and the document it analyzes
StoringAnalyzer ==
    [document_classifier |-> NewDocumentClassifier,
     entity_extractor |-> NewEntityExtractor,
     clause_extractor |-> NewClauseExtractor,
     risk_assessor |-> NewRiskAssessor,
     text_preprocessor |-> "WhitespacePreprocessor"]
StoredFiles ==
    [p \in {"contract.txt"} |->
        [exists |-> TRUE, is_dir |-> FALSE,
         content |-> "CONFIDENTIALITY AGREEMENT\nLlamaSearch Inc and Test Company LLC agree.\n"]]

\* the results of analyze that a caller adds
AnalysisResults ==
    {Analyze(StoringAnalyzer, StoredFiles, "contract.txt", contract_id).value :
        contract_id \in UUIDs}

\* results of a caller's own making, whose contract carries the attributes
\* that add reads
ResultTitles == {"Lease", "Acme NDA"}
ResultParties == {<<>>, << [name |-> "Acme Inc", type |-> None, address |-> None] >>}
ResultTexts == {"", "Acme leases the premises."}
ResultObjects ==
    {[contract |-> [id |-> contract_id, title |-> title, filename |-> "lease.txt",
                    dates |-> [effective |-> None, termination |-> None],
                    parties |-> parties, clauses |-> <<>>],
      document_type |-> "lease-agreement", risks |-> <<>>, raw_text |-> raw_text,
      metadata |-> EmptyDict] :
        contract_id \in UUIDs, title \in ResultTitles, parties \in ResultParties,
        raw_text \in ResultTexts}

\* the queries and filters of the callers
Queries == {"acme", "LEASE", "premises"}
ListedTypes == {None, "lease-agreement", "non-disclosure-agreement"}

\* repository.add(analysis_result)
Add(analysis_result) ==
    /\ LET Added(r) ==
               /\ records' = r.records
               /\ storage' = r.storage
               /\ returned' = [call |-> "add", raised |-> r.raised,
                               contract_id |-> analysis_result.contract.id,
                               raw_text |-> analysis_result.raw_text,
                               value |-> r.value]
       IN  Added(RepositoryAdd(records, storage, analysis_result))
    /\ added_ids' = added_ids \cup {analysis_result.contract.id}
    /\ UNCHANGED <<tables, fs, add_task, delete_request, chunks, text, risk_list,
                   classified, pc, locals>>

\* repository.get(contract_id)
GetContract(contract_id) ==
    /\ returned' = [call |-> "get", raised |-> None, contract_id |-> contract_id,
                    value |-> RepositoryGet(records, contract_id)]
    /\ UNCHANGED <<tables, fs, repository, chunks, text, risk_list, classified, pc, locals>>

\* repository.delete(contract_id)
Delete(contract_id) ==
    /\ LET Deleted(r) ==
               /\ records' = r.records
               /\ storage' = r.storage
               /\ returned' = [call |-> "delete", raised |-> None,
                               contract_id |-> contract_id, value |-> r.value]
       IN  Deleted(RepositoryDelete(records, storage, contract_id))
    /\ added_ids' = added_ids \ {contract_id}
    /\ UNCHANGED <<tables, fs, add_task, delete_request, chunks, text, risk_list,
                   classified, pc, locals>>

\* repository.list(document_type)
List(document_type_) ==
    /\ returned' = [call |-> "list", raised |-> None, document_type |-> document_type_,
                    value |-> RepositoryList(records, document_type_)]
    /\ UNCHANGED <<tables, fs, repository, chunks, text, risk_list, classified, pc, locals>>

\* repository.search(query)
Search(query) ==
    /\ returned' = [call |-> "search", raised |-> None, query |-> query,
                    value |-> RepositorySearch(records, storage, query)]
    /\ UNCHANGED <<tables, fs, repository, chunks, text, risk_list, classified, pc, locals>>

\* repository.get_document_text(contract_id)
GetDocumentText(contract_id) ==
    /\ returned' = [call |-> "get_document_text", raised |-> None,
                    contract_id |-> contract_id,
                    value |-> RepositoryGetDocumentText(storage, contract_id)]
    /\ UNCHANGED <<tables, fs, repository, chunks, text, risk_list, classified, pc, locals>>

NextRepository ==
    \/ \E analysis_result \in AnalysisResults : Add(analysis_result)
    \/ \E analysis_result \in ResultObjects : Add(analysis_result)
    \/ \E contract_id \in UUIDs : GetContract(contract_id)
    \/ \E contract_id \in UUIDs : Delete(contract_id)
    \/ \E document_type_ \in ListedTypes : List(document_type_)
    \/ \E query \in Queries : Search(query)
    \/ \E contract_id \in UUIDs : GetDocumentText(contract_id)

SpecRepository == InitComponents /\ [][NextRepository]_vars

(***************************************************************************)
(* add and delete running at the same time (api/server.py): analyze_contract *)
(* hands repository.add to the background tasks, delete_contract calls     *)
(* repository.delete; both run on threads of the server's pool.  A call    *)
(* takes one step for each access to the table (a session, from the query  *)
(* to the commit) and one for each access to the text files.               *)
(***************************************************************************)

\* the results the background tasks add
RacingResults ==
    AnalysisResults \cup
    {r \in ResultObjects : r.contract.title = "Lease" /\ r.contract.parties = <<>>}

\* the task starts: background_tasks.add_task(repository.add, result)
AddStart(analysis_result) ==
    /\ add_task.pc \in {"idle", "returned"}
    /\ add_task' = [pc |-> "record", analysis_result |-> analysis_result]
    /\ added_ids' = added_ids \cup {analysis_result.contract.id}
    /\ UNCHANGED <<tables, fs, records, storage, delete_request, caller, pc, locals>>

\* add, up to the ContractRecord: reading contract.filename may raise
AddBuildRecord ==
    /\ add_task.pc = "record"
    /\ add_task' =
          IF "filename" \notin DOMAIN add_task.analysis_result.contract
          THEN [pc |-> "returned", analysis_result |-> add_task.analysis_result,
                raised |-> "AttributeError", value |-> None]
          ELSE [pc |-> "session", analysis_result |-> add_task.analysis_result]
    /\ UNCHANGED <<tables, fs, records, storage, added_ids, delete_request, caller, pc,
                   locals>>

\* add, the session: the row is updated or added, and committed
AddCommit ==
    /\ add_task.pc = "session"
    /\ records' = RepositoryAdd(records, storage, add_task.analysis_result).records
    /\ add_task' = [pc |-> "text", analysis_result |-> add_task.analysis_result]
    /\ UNCHANGED <<tables, fs, storage, added_ids, delete_request, caller, pc, locals>>

\* add, after the session: the text is saved if there is one, the id returned
AddSaveText ==
    /\ add_task.pc = "text"
    /\ storage' = RepositoryAdd(records, storage, add_task.analysis_result).storage
    /\ add_task' = [pc |-> "returned", analysis_result |-> add_task.analysis_result,
                    raised |-> None, value |-> add_task.analysis_result.contract.id]
    /\ UNCHANGED <<tables, fs, records, added_ids, delete_request, caller, pc, locals>>

\* the request starts: repository.delete(contract_id)
DeleteStart(contract_id) ==
    /\ delete_request.pc \in {"idle", "returned"}
    /\ delete_request' = [pc |-> "session", contract_id |-> contract_id]
    /\ added_ids' = added_ids \ {contract_id}
    /\ UNCHANGED <<tables, fs, records, storage, add_task, caller, pc, locals>>

\* delete, the query and, with a row found, its deletion and the commit;
\* without a row delete returns False
DeleteCommit ==
    /\ delete_request.pc = "session"
    /\ records' = RepositoryDelete(records, storage, delete_request.contract_id).records
    /\ delete_request' =
          IF RowsWithId(records, delete_request.contract_id) = {}
          THEN [pc |-> "returned", contract_id |-> delete_request.contract_id,
                value |-> FALSE]
          ELSE [pc |-> "file", contract_id |-> delete_request.contract_id]
    /\ UNCHANGED <<tables, fs, storage, added_ids, add_task, caller, pc, locals>>

\* delete, after the commit: the text file is removed if it exists, and
\* delete returns True
DeleteFile ==
    /\ delete_request.pc = "file"
    /\ storage' = IF delete_request.contract_id \in DOMAIN storage
                  THEN RemoveDocumentText(storage, delete_request.contract_id)
                  ELSE storage
    /\ delete_request' = [pc |-> "returned", contract_id |-> delete_request.contract_id,
                          value |-> TRUE]
    /\ UNCHANGED <<tables, fs, records, added_ids, add_task, caller, pc, locals>>

NextConcurrent ==
    \/ \E analysis_result \in RacingResults : AddStart(analysis_result)
    \/ AddBuildRecord
    \/ AddCommit
    \/ AddSaveText
    \/ \E contract_id \in UUIDs : DeleteStart(contract_id)
    \/ DeleteCommit
    \/ DeleteFile

SpecConcurrent == InitComponents /\ [][NextConcurrent]_vars

Spec == Init /\ [][Next]_vars

(***************************************************************************)
(* Properties of analyze                                                   *)
(***************************************************************************)

\* the clause types among a sequence of clauses
TypesOf(cls) == {cls[i].type : i \in 1..Len(cls)}
\* the ids of a sequence of risks
RiskIds(rs) == {rs[i].id : i \in 1..Len(rs)}

\* C1: once analyze has assessed the risks, the assessor's document_type
\* parameter holds the classified type, its clauses the segmented clauses and
\* its text the normalized text, the assessment in the result is the
\* assessor's for that triple, and for a non-disclosure-agreement with a
\* confidentiality clause and no term clause it has a missing-term risk and
\* no missing-confidentiality risk.
C1_AssessorGetsClassifiedTriple ==
    pc \in {"assessed", "returned"} =>
        /\ assess_call = [document_type |-> document_type, clauses |-> clauses,
                          text |-> processed_text]
        /\ risks = Assess(risk_assessor, document_type, clauses, processed_text)
        /\ pc = "returned" => result.risks = risks
        /\ ( /\ document_type = "non-disclosure-agreement"
             /\ "confidentiality" \in TypesOf(clauses)
             /\ "term" \notin TypesOf(clauses) )
           => /\ "risk-missing-term" \in RiskIds(risks.risks)
              /\ "risk-missing-confidentiality" \notin RiskIds(risks.risks)

\* C2: when analyze returns, the parties of the contract are the
\* organizations the entity extractor found, one Party for each name.
C2_PartiesAreOrganizations ==
    pc = "returned" =>
        LET parties == result.contract.parties
            orgs == result.entities.organization
        IN  /\ Len(parties) = Len(orgs)
            /\ {parties[i].name : i \in 1..Len(parties)}
               = {orgs[i] : i \in 1..Len(orgs)}

(***************************************************************************)
(* Properties of the stages on the empty string                            *)
(***************************************************************************)

\* every entity list of an extract result is empty
NoEntities(ents) == \A kind \in DOMAIN ents : ents[kind] = <<>>

\* C3: called on the empty string, no stage raises and each returns its
\* default: preprocess the empty string, classify "unknown", extract only
\* empty lists, the clause extractor no clause, and assess no risk and the
\* score 0.0.
C3_EmptyStringDefaults ==
    (text = "" /\ returned # NoCall) =>
        /\ returned.raised = None
        /\ returned.call = "preprocess" => returned.value = ""
        /\ returned.call = "classify" => returned.value = "unknown"
        /\ returned.call = "extract" => NoEntities(returned.value)
        /\ returned.call = "extract_clauses" => returned.value = <<>>
        /\ returned.call = "assess" =>
              /\ returned.value.risks = <<>>
              /\ returned.value.risk_score = 0

(***************************************************************************)
(* Properties of the risk assessment                                       *)
(***************************************************************************)

\* the sum of the counts of a label -> count mapping
RECURSIVE SumOver(_, _)
SumOver(d, keys) ==
    IF keys = {} THEN 0
    ELSE LET k == CHOOSE k \in keys : TRUE IN d[k] + SumOver(d, keys \ {k})
SumOfCounts(d) == SumOver(d, DOMAIN d)

\* how many risks of a list carry a label
Carrying(rs, field, label) == Cardinality({i \in 1..Len(rs) : rs[i][field] = label})

ClaimedWeightedSum(rs) ==
    1 * Carrying(rs, "severity", "low") + 3 * Carrying(rs, "severity", "medium")
    + 5 * Carrying(rs, "severity", "high") + 10 * Carrying(rs, "severity", "critical")

\* C5: the risk score is always between 0 and 100, and the score of a list
\* with one more risk appended, whatever its severity, is at least the score
\* of the list.
C5_ScoreBoundedAndMonotone ==
    /\ [](returned.call = "_calculate_risk_score" =>
             returned.value >= 0 /\ returned.value <= 1000)
    /\ [][ ( /\ returned.call = "_calculate_risk_score"
             /\ returned'.call = "_calculate_risk_score"
             /\ Len(risk_list') = Len(risk_list) + 1
             /\ SubSeq(risk_list', 1, Len(risk_list)) = risk_list )
           => returned'.value >= returned.value ]_vars

\* a list whose last appended risk no longer raises the score: the cap is
\* reached
C5_ScoreAtCap ==
    /\ returned.call = "_calculate_risk_score"
    /\ returned.value = 1000
    /\ ClaimedWeightedSum(risk_list) > 50
    /\ risk_list[Len(risk_list)].severity = "high"

\* C6: the score of a risk list is min(100, 100 * W / 50) to one decimal,
\* W being the sum of the severity weights low 1, medium 3, high 5,
\* critical 10: 0.0 for the empty list and 100.0 whenever W >= 50.  (In
\* tenths: 100 * W / 50 is the whole number 2 * W.)
C6_ScoreFormula ==
    returned.call = "_calculate_risk_score" =>
        LET W == ClaimedWeightedSum(risk_list)
        IN  /\ returned.value = IF 20 * W < 1000 THEN 20 * W ELSE 1000
            /\ risk_list = <<>> => returned.value = 0
            /\ W >= 50 => returned.value = 1000

\* a list with risks of all four severities, scored below the cap
C6_AllSeveritiesScored ==
    /\ returned.call = "_calculate_risk_score"
    /\ {risk_list[i].severity : i \in 1..Len(risk_list)} = {"low", "medium", "high", "critical"}
    /\ Len(risk_list) = 5
    /\ returned.value = 2 * 10 * (1 + 3 + 5 + 10 + 10)

\* the number of places of the text where the word stands as a whole word:
\* a word character on one side only of its first and of its last boundary
WholeWordCount(word, t) ==
    LET n == Len(word)
    IN  Cardinality({i \in 1..(Len(t) - n + 1) :
            /\ SubSeq(t, i, i + n - 1) = word
            /\ IsWordAt(t, i - 1) # IsWordAt(t, i)
            /\ IsWordAt(t, i + n - 1) # IsWordAt(t, i + n)})

\* the score the claims give a document type
ClaimedScore(type, t) ==
    SumSeq([k \in 1..Len(type.indicators) |->
               WholeWordCount(S(type.indicators[k]), StrLower(S(t)))])

ClaimedScores(types, t) == [i \in 1..Len(types) |-> ClaimedScore(types[i], t)]

\* C7: classify returns "unknown" exactly when every document type's score,
\* the sum over its indicators of the whole-word occurrence counts in the
\* lowered text, is 0; when some score is positive it returns one of the six
\* configured types.
C7_UnknownIffAllScoresZero ==
    returned.call = "classify" =>
        LET types == document_classifier.document_types
            scores == ClaimedScores(types, text)
            all_zero == \A i \in 1..Len(types) : scores[i] = 0
        IN  /\ Len(types) = 6
            /\ (returned.value = "unknown") <=> all_zero
            /\ ~all_zero => \E i \in 1..Len(types) : returned.value = types[i].name

\* "unknown" is returned for a text that holds an indicator ("rent", "sale")
\* only inside a longer word
C7_UnknownDespiteSubstring ==
    /\ returned.call = "classify"
    /\ returned.value = "unknown"
    /\ \/ StrContains(StrLower(S(text)), S("rent"))
       \/ StrContains(StrLower(S(text)), S("sale"))

\* the first 5 lines of the text, lowered, read as one run of words (a line
\* break stands for a blank)
ClaimedFirstFiveLines(t) ==
    LET breaks == {i \in 1..Len(t) : t[i] = "\n"}
        last == IF Cardinality(breaks) >= 5 THEN KthOf(breaks, 5) - 1 ELSE Len(t)
    IN  StrLower([i \in 1..last |-> IF t[i] = "\n" THEN " " ELSE t[i]])

\* the type the claims expect for a text with a positive maximum score
ClaimedType(types, t) ==
    LET scores == ClaimedScores(types, t)
        top == MaxOf({scores[i] : i \in 1..Len(types)})
        tied == {i \in 1..Len(types) : scores[i] = top}
        lines == ClaimedFirstFiveLines(S(t))
        named == {i \in tied : \E k \in 1..Len(types[i].indicators) :
                     StrContains(lines, StrLower(S(types[i].indicators[k])))}
    IN  IF Cardinality(tied) = 1 THEN MinOf(tied)
        ELSE IF named # {} THEN MinOf(named)
        ELSE MinOf(tied)

\* C8: when the maximum score is positive, classify returns the unique type
\* attaining it; among several tied types the first, in declared order, one of
\* whose indicators occurs case-insensitively in the first 5 lines; if no tied
\* type has one, the first tied type.  A type with a lower score is never
\* returned.
C8_TieBreakByFirstLines ==
    returned.call = "classify" =>
        LET types == document_classifier.document_types
            scores == ClaimedScores(types, text)
            top == MaxOf({scores[i] : i \in 1..Len(types)})
        IN  top > 0 =>
              /\ returned.value = types[ClaimedType(types, text)].name
              /\ \A i \in 1..Len(types) :
                    types[i].name = returned.value => scores[i] = top

\* a tie that the first lines decide for a type that is not the first tied one
C8_TieDecidedByFirstLines ==
    /\ returned.call = "classify"
    /\ LET types == document_classifier.document_types
           scores == ClaimedScores(types, text)
           top == MaxOf({scores[i] : i \in 1..Len(types)})
       IN  /\ top > 0
           /\ \E i, j \in 1..Len(types) :
                 /\ i < j
                 /\ scores[i] = top
                 /\ scores[j] = top
                 /\ returned.value = types[j].name

\* the entity kinds with patterns, their pattern lists and the group kept
KindPatterns(self) ==
    [person |-> [patterns |-> self.person_patterns, group |-> 1],
     organization |-> [patterns |-> self.org_patterns, group |-> 1],
     date |-> [patterns |-> self.date_patterns, group |-> 0],
     money |-> [patterns |-> self.money_patterns, group |-> 0]]

\* the matches of the patterns of a kind: pattern after pattern in list order,
\* each pattern's matches from left to right
RECURSIVE ClaimedMatchesFrom(_, _, _, _)
ClaimedMatchesFrom(patterns, k, t, group) ==
    IF k > Len(patterns) THEN <<>>
    ELSE PatternMatches(patterns[k], t, group)
            \o ClaimedMatchesFrom(patterns, k + 1, t, group)

ClaimedMatches(self, kind, t) ==
    IF kind \in DOMAIN KindPatterns(self)
    THEN ClaimedMatchesFrom(KindPatterns(self)[kind].patterns, 1, S(t),
                            KindPatterns(self)[kind].group)
    ELSE <<>>

NoDuplicates(xs) == \A i, j \in 1..Len(xs) : xs[i] = xs[j] => i = j

\* found is xs with every occurrence after the first of a string removed
IsFirstOccurrences(found, xs) ==
    LET first(v) == MinOf({i \in 1..Len(xs) : xs[i] = v})
    IN  /\ {found[i] : i \in 1..Len(found)} = {xs[i] : i \in 1..Len(xs)}
        /\ NoDuplicates(found)
        /\ \A a, b \in 1..Len(found) : a < b => first(found[a]) < first(found[b])

\* C9: for every text and every entity kind the list extract returns holds no
\* string twice and equals the concatenation, over the kind's patterns in list
\* order, of each pattern's matches from left to right, with every occurrence
\* after the first of a string removed.
C9_EntityListsFirstOccurrences ==
    returned.call = "extract" =>
        \A kind \in DOMAIN returned.value :
            /\ NoDuplicates(returned.value[kind])
            /\ IsFirstOccurrences(returned.value[kind],
                                  ClaimedMatches(entity_extractor, kind, text))

\* the dates come in pattern order although the text has them the other way
\* round, and the date matched twice is listed once
C9_RepeatedAndReordered ==
    /\ returned.call = "extract"
    /\ Len(text) >= 7
    /\ SubSeq(text, 1, 7) = "January"
    /\ Len(ClaimedMatches(entity_extractor, "date", text)) = 3
    /\ returned.value.date = <<"1/2/2024", "January 1, 2024">>

C11_PreprocessIdempotent ==
    returned.call = "preprocess" =>
        /\ returned.raised = None
        /\ Preprocess(returned.value) = [raised |-> None, value |-> returned.value]

\* a run of n or more consecutive characters c
HasRun(t, c, n) ==
    \E i \in 1..(Len(t) - n + 1) : \A j \in i..(i + n - 1) : t[j] = c

\* C12: for every raw text the string preprocess returns has no run of 3 or
\* more newlines, no run of 2 or more spaces and no leading or trailing
\* white space.
C12_PreprocessedWhitespace ==
    returned.call = "preprocess" =>
        /\ returned.raised = None
        /\ LET t == S(returned.value)
           IN  /\ ~HasRun(t, "\n", 3)
               /\ ~HasRun(t, " ", 2)
               /\ Len(t) > 0 => t[1] \notin CSpace /\ t[Len(t)] \notin CSpace

StageError(path) ==
    LET Pre(r) == IF r.raised # None THEN r.raised
                  ELSE IF text_preprocessor = "TextPreprocessor"
                       THEN Preprocess(r.value).raised
                       ELSE WhitespacePreprocess(r.value).raised
    IN  Pre(Load(fs, path))

ClaimedParagraphs(t) ==
    LET Of(lines) ==
            LET Blank(i) == \A j \in 1..Len(lines[i]) : lines[i][j] \in CSpace
                starts == {i \in 1..Len(lines) : ~Blank(i) /\ (i = 1 \/ Blank(i - 1))}
                End(i) == MaxOf({j \in i..Len(lines) : \A m \in i..j : ~Blank(m)})
            IN  [k \in 1..Cardinality(starts) |->
                    [title |-> Str(StrStrip(lines[KthOf(starts, k)])),
                     content |-> Str(StrStrip(StrJoin(
                         SubSeq(lines, KthOf(starts, k) + 1, End(KthOf(starts, k))),
                         S("\n"))))]]
    IN  Of(StrSplit(t, "\n"))

NoHeadingMatches(self, t) ==
    \A k \in 1..Len(self.section_patterns) :
        ~ReFound(ReCompile(self.section_patterns[k]), t, FALSE)

\* C15: when no heading pattern matches anywhere in the text, extract returns
\* exactly one clause per blank-line-separated paragraph, in document order,
\* with the paragraph's first line as title and the remaining lines as
\* content; two such paragraphs yield exactly 2 clauses.
C15_OneClausePerParagraph ==
    (returned.call = "extract_clauses" /\ NoHeadingMatches(clause_extractor, S(text))) =>
        LET Same(cls, paragraphs) ==
                /\ Len(cls) = Len(paragraphs)
                /\ \A k \in 1..Len(cls) :
                      /\ cls[k].title = paragraphs[k].title
                      /\ cls[k].content = paragraphs[k].content
        IN  Same(returned.value, ClaimedParagraphs(S(text)))

\* the risks of a list that are linked to a clause
ClauseLinked(rs) == SelectSeq(rs, LAMBDA r : r.clause_id # None)

\* the pairs (clause, rule) with the rule's pattern found in the lowercased
\* title and content of the clause
FiringPairs(self, cls) ==
    {p \in (1..Len(cls)) \X (1..Len(self.risk_patterns)) :
        ReFound(ReCompile(self.risk_patterns[p[2]].pattern),
                StrLower(S(cls[p[1]].title) \o S(" ") \o S(cls[p[1]].content)), TRUE)}

MissingClauseRisks(rs) ==
    SelectSeq(rs, LAMBDA r : r.clause_id = None /\ r.id # "risk-doc-1")

\* the clause types required for a document type and absent from the clauses
AbsentRequiredTypes(type, cls) ==
    {t \in UNION {{RequiredClausesTable[i].required[k].type :
                      k \in 1..Len(RequiredClausesTable[i].required)} :
                  i \in {n \in 1..Len(RequiredClausesTable) :
                            RequiredClausesTable[n].name = type}} :
        \A i \in 1..Len(cls) : cls[i].type # t}

C18_AddThenGetRoundTrip ==
    returned.call = "add" =>
        /\ returned.raised = None
        /\ returned.value = returned.contract_id
        /\ RepositoryGet(records, returned.value).id = returned.value
        /\ RepositoryGetDocumentText(storage, returned.value) = returned.raw_text

\* C19: after any sequence of add and delete calls, list() returns exactly
\* one contract per id that was added and not deleted since; an id added
\* again is listed once, and a deleted id is not listed.
C19_ListedIdsAreAddedIds ==
    (returned.call = "list" /\ returned.document_type = None) =>
        /\ Len(returned.value) = Cardinality(added_ids)
        /\ {returned.value[i].id : i \in 1..Len(returned.value)} = added_ids

\* a stored contract whose title, a party name or stored text contains the
\* query, whatever the case of the letters
MatchesQuery(record, query) ==
    LET Has(str) == StrContains(StrLower(S(str)), StrLower(S(query)))
    IN  \/ Has(record.title)
        \/ \E i \in 1..Len(record.parties) : Has(record.parties[i].name)
        \/ record.id \in DOMAIN storage /\ Has(storage[record.id])

AcceptedCaptures(patterns, t, all_dates) ==
    SelectSeq(Flatten([k \in 1..Len(patterns) |-> PhraseCaptures(patterns[k], t, TRUE)]),
              LAMBDA date_text : InList(date_text, all_dates))

\* C22: extract_dates sets the effective (termination) date to the captured
\* text of the first phrase match, scanning the patterns in list order and
\* each pattern's matches from left to right, whose captured text is in the
\* date-entity list; no later match of the same or a later pattern replaces
\* an accepted one.
C22_FirstAcceptedPhraseWins ==
    returned.call = "extract_dates" =>
        LET First(accepted) == IF accepted = <<>> THEN None ELSE accepted[1]
            Holds(t, all_dates) ==
                /\ returned.value.effective =
                       First(AcceptedCaptures(EffectivePatterns, t, all_dates))
                /\ returned.value.termination =
                       First(AcceptedCaptures(TerminationPatterns, t, all_dates))
        IN  Holds(S(text), Extract(entity_extractor, text).date)

\* C23: every effective or termination date extract_dates returns is an
\* element of the date-entity list extract returns for the same text; when
\* no phrase capture is in that list the field stays unset; execution,
\* expiration and renewal are never set.
C23_DatesAreDateEntities ==
    returned.call = "extract_dates" =>
        LET Holds(value, t, all_dates) ==
                /\ value.effective # None => InList(value.effective, all_dates)
                /\ value.termination # None => InList(value.termination, all_dates)
                /\ AcceptedCaptures(EffectivePatterns, t, all_dates) = <<>> =>
                       value.effective = None
                /\ AcceptedCaptures(TerminationPatterns, t, all_dates) = <<>> =>
                       value.termination = None
                /\ value.execution = None
                /\ value.expiration = None
                /\ value.renewal = None
        IN  Holds(returned.value, S(text), Extract(entity_extractor, text).date)

\* an effective date was set although another phrase captured text that is
\* no date entity, and no termination date among date entities
C23_SetAndUnsetWithRejectedCapture ==
    /\ returned.call = "extract_dates"
    /\ returned.value.effective = "3/4/2024"
    /\ returned.value.termination = None
    /\ InList("today", PhraseCaptures(EffectivePatterns[3], S(text), TRUE))
    /\ Len(Extract(entity_extractor, text).date) = 2


\* the names extract_parties goes through: the organization entities in
\* entity order, then the captures of the four phrase patterns in pattern order
PartyNameSequence(self, text_) ==
    Extract(self, text_).organization \o
        Flatten([k \in 1..Len(PartyIndicators) |->
                    PhraseCaptures(PartyIndicators[k], S(text_), FALSE)])

\* C24: extract_parties returns one Party per distinct name of the sequence
\* (organization entities, then phrase captures), keeping the first
\* occurrence of each name, and the i-th Party carries the generated
\* identifier party-i.
C24_PartiesNumberedByFirstOccurrence ==
    returned.call = "extract_parties" =>
        LET Holds(parties, names) ==
                /\ IsFirstOccurrences([i \in 1..Len(parties) |-> parties[i].name], names)
                /\ \A i \in 1..Len(parties) :
                      /\ "id" \in DOMAIN parties[i]
                      /\ parties[i].id = "party-" \o ToString(i)
        IN  Holds(returned.value, PartyNameSequence(entity_extractor, text))

\* C24, the part about the names alone
C24_NamesByFirstOccurrence ==
    returned.call = "extract_parties" =>
        LET Holds(parties, names) ==
                IsFirstOccurrences([i \in 1..Len(parties) |-> parties[i].name], names)
        IN  Holds(returned.value, PartyNameSequence(entity_extractor, text))


\* the heading patterns, by priority, that match somewhere in the text
MatchingHeadingPatterns(self, t) ==
    {k \in 1..Len(self.section_patterns) :
        ReFound(ReCompile(self.section_patterns[k]), t, FALSE)}

\* the headings one pattern finds: the captured groups of each match, with
\* the span from the start of the first group to the end of the last one
Headings(pattern, t) ==
    LET Of(groups, ms) ==
            [j \in 1..Len(ms) |->
                [number |-> IF groups = 2 THEN Str(GroupN(t, ms[j], 1)) ELSE None,
                 name |-> Str(GroupN(t, ms[j], groups)),
                 start |-> ms[j].g[1][1],
                 end |-> ms[j].g[groups][2]]]
        Compiled(re) == Of(NGroups(re), ReFindIter(re, t, FALSE))
    IN  Compiled(ReCompile(pattern))

C26_ContentBetweenHeadings ==
    (returned.call = "extract_clauses"
        /\ MatchingHeadingPatterns(clause_extractor, S(text)) # {}) =>
        LET Between(cls, t, headings) ==
                \A i \in 1..Len(headings) :
                    /\ i <= Len(cls)
                    /\ cls[i].content =
                          Str(StrStrip(Slice(t, headings[i].end,
                                             IF i < Len(headings) THEN headings[i + 1].start
                                             ELSE Len(t) + 1)))
            Holds(self, t, found) ==
                Between(returned.value, t, Headings(self.section_patterns[MinOf(found)], t))
        IN  Holds(clause_extractor, S(text),
                  MatchingHeadingPatterns(clause_extractor, S(text)))


\* the clause types, by declared order, with an indicator that occurs in a
\* lowercased text
TypesIndicatedIn(self, where) ==
    {i \in 1..Len(self.clause_types) :
        \E k \in 1..Len(self.clause_types[i].indicators) :
            StrContains(where, StrLower(S(self.clause_types[i].indicators[k])))}

\* C27: the type of a clause is the first type, in declared order, with an
\* indicator occurring case-insensitively in the title; a match in the title
\* takes precedence over a match in the content, even of an earlier type;
\* without one it is the first type with an indicator in the first 100
\* characters of the lowercased content; otherwise it is "other".
C27_TitleBeforeContent ==
    returned.call = "extract_clauses" =>
        \A c \in 1..Len(returned.value) :
            LET Holds(self, type, in_title, in_content) ==
                    /\ in_title # {} => type = self.clause_types[MinOf(in_title)].name
                    /\ (in_title = {} /\ in_content # {}) =>
                           type = self.clause_types[MinOf(in_content)].name
                    /\ (in_title = {} /\ in_content = {}) => type = "other"
            IN  Holds(clause_extractor, returned.value[c].type,
                      TypesIndicatedIn(clause_extractor, StrLower(S(returned.value[c].title))),
                      TypesIndicatedIn(clause_extractor,
                          SubSeq(StrLower(S(returned.value[c].content)), 1,
                                 IF Len(returned.value[c].content) < 100
                                 THEN Len(returned.value[c].content) ELSE 100)))

\* a title of a later type over a content of an earlier one, next to a clause
\* whose only indicator lies beyond the first 100 characters of its content
C27_TitleWinsAndLateIndicator ==
    /\ returned.call = "extract_clauses"
    /\ Len(returned.value) = 2
    /\ returned.value[1].title = "1 Termination"
    /\ returned.value[1].content = "Payment of fees"
    /\ returned.value[1].type = "termination"
    /\ returned.value[2].title = "2 Other"
    /\ Len(returned.value[2].content) > 100
    /\ TypesIndicatedIn(clause_extractor, StrLower(S(returned.value[2].content))) = {2}
    /\ returned.value[2].type = "other"


\* what the document type checks are claimed to report for a type and a text
ClaimedDocumentRisks(type, t) ==
    LET lower == StrLower(S(t))
    IN  IF type = "non-disclosure-agreement"
             /\ ~StrContains(lower, S("mutual")) /\ ~StrContains(lower, S("two-way"))
        THEN << "One-way confidentiality obligations" >>
        ELSE IF type = "employment-agreement"
                  /\ (StrContains(lower, S("at will")) \/ StrContains(lower, S("at-will")))
        THEN << "At-will employment provision" >>
        ELSE <<>>

\* the part of the risk list a risk belongs to: 1 for a document type risk,
\* 2 for the risk of a clause, 3 for a missing clause
RiskPart(r) ==
    IF r.clause_id # None THEN 2
    ELSE IF StrContains(S(r.id), S("risk-missing-")) THEN 3
    ELSE 1

\* the place of the clause a risk is linked to, in the clauses handed to assess
ClausePlace(r, cls) == MinOf({i \in 1..Len(cls) : cls[i].id = r.clause_id})

NoCallUnderWay ==
    /\ add_task.pc \in {"idle", "returned"}
    /\ delete_request.pc \in {"idle", "returned"}

====
